---- MODULE Spec2Model ----
(***************************************************************************)
(* Rate-limiting core of the "Rate Limiter" backend: the in-memory store,  *)
(* the Redis counter, the five decision algorithms, the Express middleware *)
(* and the process-wide statistics.                                        *)
(*                                                                         *)
(* Granularity.  JavaScript runs every synchronous stretch of a handler to *)
(* completion, so the steps of the model are the stretches between two     *)
(* awaits; all Date.now() reads of one stretch return the same instant.    *)
(* Under Spec a whole request is one step (requests arrive one after the   *)
(* other, each at one instant); under SpecConc the requests of several     *)
(* callers interleave at their awaits and the clock advances in between.   *)
(*                                                                         *)
(* Numbers.  Times are integer milliseconds.  The rates the code keeps as  *)
(* floating-point quotients (refillInterval, processingRate, overlapRatio) *)
(* are kept as exact fractions; rounding of IEEE doubles is not modelled.  *)
(* A JS value that may be null/undefined is a sequence of length <= 1.     *)
(***************************************************************************)
EXTENDS Integers, Sequences, FiniteSets, TLC

\* ------------------------------------------------------------------ bounds

\* Last instant the model's clock reaches.
MaxTime == 2000

\* Requests handled in one behaviour of Spec.
MaxRequests == 3

\* Requests handled in one behaviour of SpecScenario.
ScenarioRequests == 14

\* Concurrent callers in one behaviour of SpecConc.
NumProcs == 3

\* the Checks started in a run of concurrent sliding-window-log callers
ConcChecks == 4

\* the requests of a run of the URL shortener's limiter
ShortenerRequests == 4

\* the store operations of a run with eviction sweeps
StoreOps == 3

\* the requests of a run of one short-window limiter, and how long it runs
TimedRequests == 5

TimedEnd == 3000

\* ------------------------------------------------------------- arithmetic

MsPerSec == 1000

Null == << >>

Some(v) == << v >>

Min(a, b) == IF a <= b THEN a ELSE b

Max(a, b) == IF a >= b THEN a ELSE b

\* Math.floor(a / b) for b > 0
FloorDiv(a, b) == a \div b

\* Math.ceil(a / b) for b > 0
CeilDiv(a, b) == -((-a) \div b)

\* JS `x || d` on numbers: 0 (and undefined, modelled as 0) is falsy.
OrDefault(x, d) == IF x = 0 THEN d ELSE x

\* A JS number that need not be whole (a token count, and what is reported
\* from it) is a fraction in lowest terms with a positive denominator.
RECURSIVE Gcd(_, _)
Gcd(a, b) == IF b = 0 THEN a ELSE Gcd(b, a % b)

Q(n, d) ==
    LET g == Gcd(IF n < 0 THEN -n ELSE n, d)
    IN [num |-> n \div g, den |-> d \div g]

QInt(n) == [num |-> n, den |-> 1]

QAdd(a, b) == Q(a.num * b.den + b.num * a.den, a.den * b.den)

QSub(a, b) == Q(a.num * b.den - b.num * a.den, a.den * b.den)

QMulInt(a, k) == Q(a.num * k, a.den)

QLess(a, b) == a.num * b.den < b.num * a.den

QMin(a, b) == IF QLess(b, a) THEN b ELSE a

QMax(a, b) == IF QLess(a, b) THEN b ELSE a

IsWhole(a) == a.den = 1

\* The instants at which the clock is observed: the whole seconds and the
\* millisecond before each, so that both sides of every boundary are met.
Instants == { t \in 0..MaxTime : t % MsPerSec \in { 0, MsPerSec - 1 } }

\* --------------------------------------------------------------- JS Map

MapSet(m, k, v) == [x \in (DOMAIN m) \cup {k} |-> IF x = k THEN v ELSE m[x]]

MapDelete(m, k) == [x \in (DOMAIN m) \ {k} |-> m[x]]

EmptyMap == [x \in {} |-> 0]

\* Store keys are strings in the code.  A client key K is <<K>>, the
\* window key `${K}:${windowStart}` is <<K, windowStart>>.
PlainKey(k) == << k >>

WindowKey(k, windowStart) == << k, windowStart >>

\* ---------------------------------------------------------- MemoryStore

EmptyStore ==
    [counters |-> EmptyMap, timestamps |-> EmptyMap,
     bucketStates |-> EmptyMap, queueStates |-> EmptyMap]

\* isExpired, mutated: every entry counts as expired
isExpiredAlways(stored, now) == stored.expiresAt <= now \/ stored.expiresAt > now

isExpired(stored, now) == stored.expiresAt <= now

Live(m, key, now) == key \in DOMAIN m /\ ~isExpired(m[key], now)

\* increment, mutated: the new value is returned but never written back
incrementLost(st, key, windowMs, now) ==
    LET c == st.counters IN
    IF ~Live(c, key, now)
    THEN [store |-> st, ret |-> 1]
    ELSE [store |-> st, ret |-> c[key].value + 1]

increment(st, key, windowMs, now) ==
    LET c == st.counters IN
    IF ~Live(c, key, now)
    THEN [store |-> [st EXCEPT !.counters =
                        MapSet(c, key, [value |-> 1, expiresAt |-> now + windowMs])],
          ret |-> 1]
    ELSE [store |-> [st EXCEPT !.counters =
                        MapSet(c, key, [c[key] EXCEPT !.value = @ + 1])],
          ret |-> c[key].value + 1]

get(st, key, now) ==
    IF Live(st.counters, key, now) THEN Some(st.counters[key].value) ELSE Null

addTimestamp(st, key, timestamp, windowMs, now) ==
    LET m == st.timestamps IN
    IF ~Live(m, key, now)
    THEN [st EXCEPT !.timestamps =
             MapSet(m, key, [value |-> << timestamp >>, expiresAt |-> now + windowMs])]
    ELSE [st EXCEPT !.timestamps =
             MapSet(m, key, [value |-> Append(m[key].value, timestamp),
                             expiresAt |-> now + windowMs])]

KeepFrom(s, minTimestamp) == SelectSeq(s, LAMBDA ts : ts >= minTimestamp)

getTimestamps(st, key, minTimestamp, now) ==
    IF Live(st.timestamps, key, now)
    THEN KeepFrom(st.timestamps[key].value, minTimestamp)
    ELSE << >>

\* removeOldTimestamps, mutated: nothing is dropped
removeOldTimestampsKeepsAll(st, key, minTimestamp, now) == st

removeOldTimestamps(st, key, minTimestamp, now) ==
    LET m == st.timestamps IN
    IF Live(m, key, now)
    THEN [st EXCEPT !.timestamps =
             MapSet(m, key, [m[key] EXCEPT !.value = KeepFrom(@, minTimestamp)])]
    ELSE st

getBucketState(st, key, now) ==
    IF Live(st.bucketStates, key, now) THEN Some(st.bucketStates[key].value) ELSE Null

setBucketState(st, key, state, ttlMs, now) ==
    [st EXCEPT !.bucketStates =
        MapSet(@, key, [value |-> state, expiresAt |-> now + ttlMs])]

\* getBucketState and getQueue hand out the stored object itself, so what the
\* caller assigns to its fields is in the store before any set call.
MutateBucketState(st, key, state) == [st EXCEPT !.bucketStates[key].value = state]

MutateQueue(st, key, state) == [st EXCEPT !.queueStates[key].value = state]

getQueue(st, key, now) ==
    IF Live(st.queueStates, key, now) THEN Some(st.queueStates[key].value) ELSE Null

setQueue(st, key, state, ttlMs, now) ==
    [st EXCEPT !.queueStates =
        MapSet(@, key, [value |-> state, expiresAt |-> now + ttlMs])]

\* delete(key): the entries stored under exactly that key, in all four maps
delete(st, key) ==
    [counters |-> MapDelete(st.counters, key),
     timestamps |-> MapDelete(st.timestamps, key),
     bucketStates |-> MapDelete(st.bucketStates, key),
     queueStates |-> MapDelete(st.queueStates, key)]

\* reset(), mutated: the counters map is left as it is
resetKeepsCounters(st) == [EmptyStore EXCEPT !.counters = st.counters]

\* reset(): all four maps cleared
reset(st) == EmptyStore

\* cleanMap: the entries with expiresAt <= now are deleted
cleanMap(m, now) == [k \in { j \in DOMAIN m : m[j].expiresAt > now } |-> m[k]]

\* cleanupExpired(), the body of the 60 s interval timer
cleanupExpired(st, now) ==
    [counters |-> cleanMap(st.counters, now),
     timestamps |-> cleanMap(st.timestamps, now),
     bucketStates |-> cleanMap(st.bucketStates, now),
     queueStates |-> cleanMap(st.queueStates, now)]

\* getTTL: the entry looked at is the one of the first map holding the key
\* (counters || timestamps || bucketStates || queueStates), expired or not
getTTL(st, key, now) ==
    LET stored == IF key \in DOMAIN st.counters THEN Some(st.counters[key])
                  ELSE IF key \in DOMAIN st.timestamps THEN Some(st.timestamps[key])
                  ELSE IF key \in DOMAIN st.bucketStates THEN Some(st.bucketStates[key])
                  ELSE IF key \in DOMAIN st.queueStates THEN Some(st.queueStates[key])
                  ELSE Null
    IN IF stored = Null \/ isExpired(stored[1], now) THEN 0
       ELSE stored[1].expiresAt - now

\* ------------------------------------------------------ limiter configs

\* A RateLimitConfig.  An optional field left out is 0 (falsy, as undefined).
\* The values scale the server's limiters (10 s windows, limits of 5 and 10)
\* down to 2 s windows and limits of 1 to 3.
Config(algorithm, windowMs, maxRequests) ==
    [algorithm |-> algorithm, windowMs |-> windowMs, maxRequests |-> maxRequests,
     bucketSize |-> 0, refillRate |-> QInt(0), refillInterval |-> 0,
     queueSize |-> 0, processingRate |-> 0,
     headers |-> TRUE, statusCode |-> 0]

Limiters ==
    [tb    |-> [Config("TOKEN_BUCKET", 1000, 4) EXCEPT
                   !.bucketSize = 2, !.refillRate = QInt(1), !.refillInterval = 1000],
     tbDef |-> Config("TOKEN_BUCKET", 2000, 3),
     tbHalf |-> [Config("TOKEN_BUCKET", 2000, 2) EXCEPT
                   !.bucketSize = 1, !.refillRate = Q(1, 2), !.refillInterval = 1000],
     lb    |-> [Config("LEAKING_BUCKET", 2000, 4) EXCEPT
                   !.queueSize = 1, !.processingRate = 1],
     lbJob |-> [Config("LEAKING_BUCKET", 2000, 4) EXCEPT
                   !.queueSize = 2, !.processingRate = 1],
     lbDef |-> Config("LEAKING_BUCKET", 2000, 3),
     fw    |-> Config("FIXED_WINDOW", 2000, 2),
     fwRaw |-> [Config("FIXED_WINDOW", 1500, 1) EXCEPT
                   !.headers = FALSE, !.statusCode = 403],
     swl   |-> Config("SLIDING_WINDOW_LOG", 2000, 2),
     swc   |-> Config("SLIDING_WINDOW_COUNTER", 2000, 2),
     fwApi  |-> Config("FIXED_WINDOW", 2000, 3),
     swcApi |-> Config("SLIDING_WINDOW_COUNTER", 2000, 3),
     fwZero |-> Config("FIXED_WINDOW", 2000, 0),
     bogus  |-> Config("UNKNOWN", 2000, 2),
     s3     |-> [Config("TOKEN_BUCKET", 10000, 10) EXCEPT
                   !.bucketSize = 10, !.refillRate = QInt(1), !.refillInterval = 1000],
     s4     |-> [Config("LEAKING_BUCKET", 10000, 3) EXCEPT
                   !.queueSize = 3, !.processingRate = 1],
     s5     |-> Config("SLIDING_WINDOW_COUNTER", 60000, 10),
     tbSlow |-> [Config("TOKEN_BUCKET", 1000, 2) EXCEPT
                   !.bucketSize = 2, !.refillRate = QInt(1), !.refillInterval = 3000],
     swlShort |-> Config("SLIDING_WINDOW_LOG", 1000, 2)]

LimiterIds == DOMAIN Limiters

Algorithms ==
    {"TOKEN_BUCKET", "LEAKING_BUCKET", "FIXED_WINDOW",
     "SLIDING_WINDOW_LOG", "SLIDING_WINDOW_COUNTER"}

\* The limiters built on one store: each alone, and limiters the server builds
\* together on its single store with the same client key: the two
\* leaking-bucket limiters (GET /api/leaking-bucket and POST /api/jobs/submit),
\* and the fixed-window and sliding-window-counter limiters, which have the
\* same window and the same limit.  The last two are configurations a caller
\* of createRateLimiterMiddleware can pass: a limit of 0 and an algorithm id
\* that does not exist.
Deployments ==
    { {"tb"}, {"tbDef"}, {"tbHalf"}, {"lb"}, {"lbDef"}, {"lb", "lbJob"},
      {"fw"}, {"fwRaw"}, {"swl"}, {"swc"}, {"fwApi", "swcApi"},
      {"fwZero"}, {"bogus"} }

\* createRateLimiter: the limiter for the configuration, or nothing when the
\* switch falls to its default and throws.
createRateLimiter(cfg) == IF cfg.algorithm \in Algorithms THEN Some(cfg) ELSE Null

\* The middlewares that exist after constructing those of d: none when one
\* construction threw.
Constructed(d) ==
    IF \A l \in d : createRateLimiter(Limiters[l]) # Null THEN d ELSE {}

Keys == {"ip1", "ip2"}

\* ----------------------------------------------------------- decisions

Result(allowed, remaining, resetTime, limit, retryAfter, currentCount) ==
    [allowed |-> allowed, remaining |-> remaining, resetTime |-> resetTime,
     limit |-> limit, retryAfter |-> retryAfter, currentCount |-> currentCount]

NoResult == Result(TRUE, QInt(0), 0, 0, Null, QInt(0))

Returned(st, result) == [threw |-> FALSE, store |-> st, result |-> result]

Threw(st) == [threw |-> TRUE, store |-> st, result |-> NoResult]

\* ---------------------------------------------------------- token bucket

TB_bucketSize(cfg) == OrDefault(cfg.bucketSize, cfg.maxRequests)

TB_refillRate(cfg) == IF cfg.refillRate.num = 0 THEN QInt(1) ELSE cfg.refillRate

\* refillInterval = config.refillInterval || windowMs / maxRequests, as the
\* fraction TB_intervalNum / TB_intervalDen
TB_intervalNum(cfg) == IF cfg.refillInterval = 0 THEN cfg.windowMs ELSE cfg.refillInterval

TB_intervalDen(cfg) == IF cfg.refillInterval = 0 THEN cfg.maxRequests ELSE 1

\* Math.floor(timePassed / refillInterval) * refillRate
TB_tokensToAdd(cfg, state, now) ==
    QMulInt(TB_refillRate(cfg),
            FloorDiv((now - state.lastRefillTime) * TB_intervalDen(cfg),
                     TB_intervalNum(cfg)))

\* the refill, mutated: lastRefillTime moves to now on every call
TB_refillRestartsClock(cfg, state, now) ==
    [tokens |-> QMin(QInt(TB_bucketSize(cfg)),
                     QAdd(state.tokens, TB_tokensToAdd(cfg, state, now))),
     lastRefillTime |-> now]

TB_refill(cfg, state, now) ==
    [tokens |-> QMin(QInt(TB_bucketSize(cfg)),
                     QAdd(state.tokens, TB_tokensToAdd(cfg, state, now))),
     lastRefillTime |-> IF TB_tokensToAdd(cfg, state, now).num > 0 THEN now
                        ELSE state.lastRefillTime]

TB_allowed(state) == state.tokens.num > 0

TB_consume(state) ==
    IF TB_allowed(state) THEN [state EXCEPT !.tokens = QSub(@, QInt(1))] ELSE state

\* state: the state that was saved; allowed: the decision taken on the way
TB_result(cfg, state, allowed, now) ==
    LET bucketSize == TB_bucketSize(cfg)
        tokensNeeded == QSub(QInt(bucketSize), state.tokens)
        rate == TB_refillRate(cfg)
        \* timeToFullMs = tokensNeeded / refillRate * refillInterval
        fullNum == tokensNeeded.num * rate.den * TB_intervalNum(cfg)
        fullDen == tokensNeeded.den * rate.num * TB_intervalDen(cfg)
    IN Result(allowed,
              QMax(QInt(0), state.tokens),
              CeilDiv(now * fullDen + fullNum, fullDen * MsPerSec),
              bucketSize,
              IF allowed THEN Null
              ELSE Some(CeilDiv(TB_intervalNum(cfg), TB_intervalDen(cfg) * MsPerSec)),
              tokensNeeded)

\* fail: the store call that throws (0: none)
TB_checkLimit(st, cfg, key, now, fail) ==
    IF fail = 1 THEN Threw(st)
    ELSE
    LET loaded == getBucketState(st, PlainKey(key), now)
        state0 == IF Len(loaded) = 0
                  THEN [tokens |-> QInt(TB_bucketSize(cfg)), lastRefillTime |-> now]
                  ELSE loaded[1]
        state1 == TB_refill(cfg, state0, now)
        allowed == TB_allowed(state1)
        state2 == TB_consume(state1)
    IN IF fail = 2
       THEN Threw(IF Len(loaded) = 0 THEN st
                  ELSE MutateBucketState(st, PlainKey(key), state2))
       ELSE Returned(setBucketState(st, PlainKey(key), state2, cfg.windowMs * 2, now),
                     TB_result(cfg, state2, allowed, now))

\* -------------------------------------------------------- leaking bucket

LB_queueSize(cfg) == OrDefault(cfg.queueSize, cfg.maxRequests)

\* processingRate = config.processingRate || maxRequests / (windowMs / 1000),
\* as the fraction LB_rateNum / LB_rateDen (requests per second)
LB_rateNum(cfg) ==
    IF cfg.processingRate = 0 THEN cfg.maxRequests * MsPerSec ELSE cfg.processingRate

LB_rateDen(cfg) == IF cfg.processingRate = 0 THEN cfg.windowMs ELSE 1

LB_leakedCount(cfg, state, now) ==
    FloorDiv((now - state.lastLeakTime) * LB_rateNum(cfg), MsPerSec * LB_rateDen(cfg))

\* Array.prototype.slice(n) for n >= 0
Slice(s, n) == SubSeq(s, Min(n, Len(s)) + 1, Len(s))

\* the leak, mutated: nothing ever leaves the queue
LB_leakNothing(cfg, state, now) == state

LB_leak(cfg, state, now) ==
    IF LB_leakedCount(cfg, state, now) > 0
    THEN [queue |-> Slice(state.queue, LB_leakedCount(cfg, state, now)),
          lastLeakTime |-> now]
    ELSE state

LB_allowed(cfg, state) == Len(state.queue) < LB_queueSize(cfg)

LB_result(cfg, state, allowed, now) ==
    LET queueSize == LB_queueSize(cfg)
        num == LB_rateNum(cfg)
        den == LB_rateDen(cfg)
    IN IF ~allowed /\ Len(state.queue) > 0
       THEN Result(allowed, QInt(queueSize - Len(state.queue)),
                   CeilDiv(now * num + MsPerSec * den, MsPerSec * num),
                   queueSize,
                   Some(CeilDiv(den, num)),
                   QInt(Len(state.queue)))
       ELSE Result(allowed, QInt(queueSize - Len(state.queue)),
                   CeilDiv(now * num + Len(state.queue) * den * MsPerSec, MsPerSec * num),
                   queueSize,
                   Null,
                   QInt(Len(state.queue)))

LB_checkLimit(st, cfg, key, now, fail) ==
    IF fail = 1 THEN Threw(st)
    ELSE
    LET loaded == getQueue(st, PlainKey(key), now)
        state0 == IF Len(loaded) = 0
                  THEN [queue |-> << >>, lastLeakTime |-> now]
                  ELSE loaded[1]
        state1 == LB_leak(cfg, state0, now)
        allowed == LB_allowed(cfg, state1)
        state2 == IF allowed THEN [state1 EXCEPT !.queue = Append(@, now)] ELSE state1
    IN IF fail = 2
       THEN Threw(IF Len(loaded) = 0 THEN st
                  ELSE MutateQueue(st, PlainKey(key), state2))
       ELSE Returned(setQueue(st, PlainKey(key), state2, cfg.windowMs * 2, now),
                     LB_result(cfg, state2, allowed, now))

\* ---------------------------------------------------------- fixed window

FW_windowStart(cfg, now) == now - (now % cfg.windowMs)

\* getWindowKey, mutated: the client key is left out of the counter's key
getWindowKeyShared(cfg, baseKey, now) == WindowKey("", FW_windowStart(cfg, now))

getWindowKey(cfg, baseKey, now) == WindowKey(baseKey, FW_windowStart(cfg, now))

getWindowResetTime(cfg, now) ==
    CeilDiv(FW_windowStart(cfg, now) + cfg.windowMs, MsPerSec)

\* the admission test, mutated: off by one
FW_allowedOffByOne(cfg, currentCount) == currentCount <= cfg.maxRequests + 1

FW_allowed(cfg, currentCount) == currentCount <= cfg.maxRequests

\* retry-after, mutated: the seconds are rounded down
FW_retryAfterFloor(resetTime, now) == FloorDiv(resetTime * MsPerSec - now, MsPerSec)

FW_retryAfter(resetTime, now) == CeilDiv(resetTime * MsPerSec - now, MsPerSec)

\* remaining, mutated: computed from the count before the increment
FW_remainingBeforeCount(cfg, currentCount) ==
    Max(0, cfg.maxRequests - (currentCount - 1))

FW_remaining(cfg, currentCount) == Max(0, cfg.maxRequests - currentCount)

\* now: the instant of the stretch after `await increment`
FW_result(cfg, currentCount, now) ==
    LET allowed == FW_allowed(cfg, currentCount)
        resetTime == getWindowResetTime(cfg, now)
    IN Result(allowed,
              QInt(FW_remaining(cfg, currentCount)),
              resetTime,
              cfg.maxRequests,
              IF ~allowed THEN Some(FW_retryAfter(resetTime, now)) ELSE Null,
              QInt(currentCount))

FW_checkLimit(st, cfg, key, now, fail) ==
    IF fail = 1 THEN Threw(st)
    ELSE LET inc == increment(st, getWindowKey(cfg, key, now), cfg.windowMs, now)
         IN Returned(inc.store, FW_result(cfg, inc.ret, now))

\* ----------------------------------------------------- sliding window log

\* Math.min(...timestamps) of a non-empty array
MinOf(s) == CHOOSE x \in { s[i] : i \in 1..Len(s) } :
                \A j \in 1..Len(s) : x <= s[j]

\* the admission test, mutated: off by one
SWL_allowedOffByOne(cfg, currentCount) == currentCount <= cfg.maxRequests

SWL_allowed(cfg, currentCount) == currentCount < cfg.maxRequests

SWL_result(cfg, timestamps, allowed, now) ==
    LET currentCount == Len(timestamps)
        plus == IF allowed THEN 1 ELSE 0
        remaining == QInt(Max(0, cfg.maxRequests - currentCount - plus))
    IN IF ~allowed /\ Len(timestamps) > 0
       THEN LET whenOldestExpires == MinOf(timestamps) + cfg.windowMs
            IN Result(allowed, remaining,
                      CeilDiv(whenOldestExpires, MsPerSec),
                      cfg.maxRequests,
                      Some(Max(1, CeilDiv(whenOldestExpires - now, MsPerSec))),
                      QInt(currentCount + plus))
       ELSE Result(allowed, remaining,
                   CeilDiv(now + cfg.windowMs, MsPerSec),
                   cfg.maxRequests, Null, QInt(currentCount + plus))

SWL_checkLimit(st, cfg, key, now, fail) ==
    IF fail = 1 THEN Threw(st)
    ELSE
    LET windowStart == now - cfg.windowMs
        st1 == removeOldTimestamps(st, PlainKey(key), windowStart, now)
        timestamps == getTimestamps(st1, PlainKey(key), windowStart, now)
        allowed == SWL_allowed(cfg, Len(timestamps))
    IN IF fail = 2 \/ (fail = 3 /\ allowed) THEN Threw(st1)
       ELSE Returned(IF allowed
                     THEN addTimestamp(st1, PlainKey(key), now, cfg.windowMs, now)
                     ELSE st1,
                     SWL_result(cfg, timestamps, allowed, now))

\* ------------------------------------------------- sliding window counter

getWindowKeys(cfg, baseKey, now) ==
    LET windowStart == now - (now % cfg.windowMs)
    IN [currentKey |-> WindowKey(baseKey, windowStart),
        previousKey |-> WindowKey(baseKey, windowStart - cfg.windowMs),
        windowStart |-> windowStart]

\* getOverlapRatio() = 1 - (now % windowMs) / windowMs, times windowMs
OverlapTimesWindow(cfg, now) == cfg.windowMs - (now % cfg.windowMs)

\* Math.floor(currentWindowCount + previousWindowCount * overlapRatio)
SWC_estimatedFloor(cfg, currentWindowCount, previousWindowCount, now) ==
    FloorDiv(currentWindowCount * cfg.windowMs
                 + previousWindowCount * OverlapTimesWindow(cfg, now),
             cfg.windowMs)

SWC_allowed(cfg, estimatedFloor) == estimatedFloor < cfg.maxRequests

SWC_result(cfg, windowStart, estimatedFloor, allowed) ==
    LET plus == IF allowed THEN 1 ELSE 0
        requestsOverLimit == estimatedFloor - cfg.maxRequests + 1
    IN Result(allowed,
              QInt(Max(0, cfg.maxRequests - estimatedFloor - plus)),
              CeilDiv(windowStart + cfg.windowMs, MsPerSec),
              cfg.maxRequests,
              IF ~allowed
              THEN Some(Max(1, CeilDiv(requestsOverLimit * cfg.windowMs,
                                       cfg.maxRequests * MsPerSec)))
              ELSE Null,
              QInt(estimatedFloor + plus))

\* await this.store.get(previousKey) || 0
SWC_previousWindowCount(st, cfg, key, now) ==
    LET prev == get(st, getWindowKeys(cfg, key, now).previousKey, now)
    IN IF Len(prev) = 0 THEN 0 ELSE OrDefault(prev[1], 0)

SWC_checkLimit(st, cfg, key, now, fail) ==
    IF fail \in {1, 2} THEN Threw(st)
    ELSE
    LET keys == getWindowKeys(cfg, key, now)
        cur == get(st, keys.currentKey, now)
        currentWindowCount == IF Len(cur) = 0 THEN 0 ELSE OrDefault(cur[1], 0)
        previousWindowCount == SWC_previousWindowCount(st, cfg, key, now)
        estimatedFloor ==
            SWC_estimatedFloor(cfg, currentWindowCount, previousWindowCount, now)
        allowed == SWC_allowed(cfg, estimatedFloor)
    IN IF fail = 3 /\ allowed THEN Threw(st)
       ELSE Returned(IF allowed
                     THEN increment(st, keys.currentKey, cfg.windowMs, now).store
                     ELSE st,
                     SWC_result(cfg, keys.windowStart, estimatedFloor, allowed))

\* The store calls one checkLimit awaits, any of which may reject.
StoreCalls(cfg) ==
    CASE cfg.algorithm = "TOKEN_BUCKET" -> 2
      [] cfg.algorithm = "LEAKING_BUCKET" -> 2
      [] cfg.algorithm = "FIXED_WINDOW" -> 1
      [] cfg.algorithm = "SLIDING_WINDOW_LOG" -> 3
      [] cfg.algorithm = "SLIDING_WINDOW_COUNTER" -> 3

\* createRateLimiter + checkLimit: the limiter the middleware was built with
checkLimit(st, cfg, key, now, fail) ==
    CASE cfg.algorithm = "TOKEN_BUCKET" -> TB_checkLimit(st, cfg, key, now, fail)
      [] cfg.algorithm = "LEAKING_BUCKET" -> LB_checkLimit(st, cfg, key, now, fail)
      [] cfg.algorithm = "FIXED_WINDOW" -> FW_checkLimit(st, cfg, key, now, fail)
      [] cfg.algorithm = "SLIDING_WINDOW_LOG" -> SWL_checkLimit(st, cfg, key, now, fail)
      [] cfg.algorithm = "SLIDING_WINDOW_COUNTER" -> SWC_checkLimit(st, cfg, key, now, fail)

\* ------------------------------------------------------------ middleware

DefaultStatusCode == 429

InitStats ==
    [totalRequests |-> 0, allowedRequests |-> 0, blockedRequests |-> 0,
     uniqueKeys |-> 0,
     requestsByAlgorithm |->
         [a \in Algorithms |-> [total |-> 0, allowed |-> 0, blocked |-> 0]]]

\* Step 4, mutated: a blocked request is not counted under its algorithm
UpdateStatsBlockedLost(s, algorithm, allowed, uniqueKeysSize) ==
    [totalRequests |-> s.totalRequests + 1,
     allowedRequests |-> s.allowedRequests + (IF allowed THEN 1 ELSE 0),
     blockedRequests |-> s.blockedRequests + (IF allowed THEN 0 ELSE 1),
     uniqueKeys |-> uniqueKeysSize,
     requestsByAlgorithm |->
         [s.requestsByAlgorithm EXCEPT
             ![algorithm] = [total |-> @.total + 1,
                             allowed |-> @.allowed + (IF allowed THEN 1 ELSE 0),
                             blocked |-> @.blocked]]]

\* Step 4 of the middleware: the counters after one decision
UpdateStats(s, algorithm, allowed, uniqueKeysSize) ==
    [totalRequests |-> s.totalRequests + 1,
     allowedRequests |-> s.allowedRequests + (IF allowed THEN 1 ELSE 0),
     blockedRequests |-> s.blockedRequests + (IF allowed THEN 0 ELSE 1),
     uniqueKeys |-> uniqueKeysSize,
     requestsByAlgorithm |->
         [s.requestsByAlgorithm EXCEPT
             ![algorithm] = [total |-> @.total + 1,
                             allowed |-> @.allowed + (IF allowed THEN 1 ELSE 0),
                             blocked |-> @.blocked + (IF allowed THEN 0 ELSE 1)]]]

\* What the middleware did to one request: the headers it set, the response
\* it sent (status 0 and no body: none), and how often it called next().
EmptyResponse ==
    [headers |-> EmptyMap, status |-> 0, body |-> Null, nextCalls |-> 0, sent |-> 0]

setRateLimitHeaders(res, result) ==
    LET h1 == MapSet(res.headers, "X-RateLimit-Limit", result.limit)
        h2 == MapSet(h1, "X-RateLimit-Remaining", result.remaining)
        h3 == MapSet(h2, "X-RateLimit-Reset", result.resetTime)
    IN [res EXCEPT !.headers =
           IF Len(result.retryAfter) > 0
           THEN MapSet(h3, "Retry-After", result.retryAfter[1])
           ELSE h3]

\* new Date(ms).toISOString(): the UTC instant written to the millisecond,
\* kept as its whole seconds and its millisecond digits
toISOString(ms) == [seconds |-> ms \div MsPerSec, millis |-> ms % MsPerSec]

\* res.status(statusCode).json({...}); JSON.stringify drops an undefined field
reject(res, cfg, result) ==
    [res EXCEPT !.status = OrDefault(cfg.statusCode, DefaultStatusCode),
                !.body = Some([retryAfter |-> result.retryAfter,
                               limit |-> result.limit,
                               remaining |-> result.remaining,
                               resetTime |-> toISOString(result.resetTime * MsPerSec)]),
                !.sent = @ + 1]

forward(res) == [res EXCEPT !.nextCalls = @ + 1]

\* the catch clause, mutated: the error is swallowed and nothing is called
catchErrorSilent(res) == res

\* the catch clause: fail open
catchError(res) == forward(res)

\* The middleware from the decision on.  out: what checkLimit did.
respond(cfg, out) ==
    IF out.threw THEN catchError(EmptyResponse)
    ELSE LET res == IF cfg.headers
                    THEN setRateLimitHeaders(EmptyResponse, out.result)
                    ELSE EmptyResponse
         IN IF ~out.result.allowed
            THEN reject(res, cfg, out.result)
            ELSE forward(res)

\* the statistics step, mutated: counted before the limiter is consulted
statsAfterEager(s, cfg, out, uniqueKeysSize) ==
    UpdateStats(s, cfg.algorithm, out.result.allowed, uniqueKeysSize)

\* The statistics after one request: untouched when checkLimit threw.
statsAfter(s, cfg, out, uniqueKeysSize) ==
    IF out.threw THEN s
    ELSE UpdateStats(s, cfg.algorithm, out.result.allowed, uniqueKeysSize)

\* resetStats(): every counter back to 0 (the Set of keys is cleared with it)
resetStats(s) ==
    [totalRequests |-> 0, allowedRequests |-> 0, blockedRequests |-> 0,
     uniqueKeys |-> 0,
     requestsByAlgorithm |->
         [a \in DOMAIN s.requestsByAlgorithm |-> [total |-> 0, allowed |-> 0, blocked |-> 0]]]

\* ------------------------------------------------------------- the state

VARIABLES
    clock,        \* Date.now()
    store,        \* the MemoryStore shared by the limiters of the deployment
    deployment,   \* the limiters built on the store
    stats,        \* the module-level stats object of the middleware
    uniqueKeys,   \* the module-level Set of keys
    last,         \* the request handled last and what became of it
    allowedLog,   \* per client key, the instants of its allowed decisions
    nreq,         \* operations handled so far
    cleared,      \* per client key, how its state was last cleared, until its
                  \* next request: "delete", "reset" or "no"
    decisions,    \* per limiter and client key, the decisions made, in order
    mode,         \* SpecConc: what the concurrent callers do
    procs,        \* SpecConc: each caller's position and locals
    redis         \* SpecConc: the counters held by the Redis server

vars == << clock, store, deployment, stats, uniqueKeys, last, allowedLog, nreq,
           cleared, decisions, mode, procs, redis >>

concVars == << mode, procs, redis >>

NoDecisions == [l \in deployment |-> [k \in Keys |-> << >>]]

NotCleared == [k \in Keys |-> "no"]

NoLast ==
    [limiter |-> "none", key |-> "none", now |-> 0, threw |-> FALSE,
     result |-> NoResult, response |-> EmptyResponse, statsBefore |-> InitStats,
     after |-> "no", keyThrew |-> FALSE]

Init ==
    /\ clock = 0
    /\ store = EmptyStore
    /\ \E d \in Deployments : deployment = Constructed(d)
    /\ stats = InitStats
    /\ uniqueKeys = {}
    /\ last = NoLast
    /\ allowedLog = [k \in Keys |-> << >>]
    /\ nreq = 0
    /\ cleared = NotCleared
    /\ decisions = NoDecisions
    /\ mode = "off"
    /\ procs = << >>
    /\ redis = EmptyMap

\* The clients followed: two where one limiter has the store to itself, one
\* where two limiters share it.
Clients == IF Cardinality(deployment) > 1 THEN {"ip1"} ELSE Keys

\* The requests one behaviour handles.
Budget ==
    CASE mode = "scenario" -> ScenarioRequests
      [] mode = "timed" -> TimedRequests
      [] OTHER -> MaxRequests

\* Time passes between two requests.
Tick ==
    /\ \E t \in Instants : t > clock /\ clock' = t
    /\ UNCHANGED << store, deployment, stats, uniqueKeys, last, allowedLog, nreq,
                    cleared, decisions >>
    /\ UNCHANGED concVars

\* One request through the middleware of limiter l, from the client whose
\* key is `key`; `fail` is the store call that throws (0: none does).
Request(l, key, fail) ==
    /\ nreq < Budget
    /\ l \in deployment
    /\ key \in Clients
    /\ fail <= StoreCalls(Limiters[l])
    /\ LET cfg == Limiters[l]
           keys1 == uniqueKeys \cup {key}
           out == checkLimit(store, cfg, key, clock, fail)
       IN /\ uniqueKeys' = keys1
          /\ store' = out.store
          /\ stats' = statsAfter(stats, cfg, out, Cardinality(keys1))
          /\ last' = [limiter |-> l, key |-> key, now |-> clock,
                      threw |-> out.threw, result |-> out.result,
                      response |-> respond(cfg, out), statsBefore |-> stats,
                      after |-> cleared[key], keyThrew |-> FALSE]
          /\ cleared' = [cleared EXCEPT ![key] = "no"]
          /\ allowedLog' = IF ~out.threw /\ out.result.allowed
                           THEN [allowedLog EXCEPT ![key] = Append(@, clock)]
                           ELSE allowedLog
          /\ decisions' = IF ~out.threw
                          THEN [decisions EXCEPT ![l][key] =
                                   Append(@, [now |-> clock, result |-> out.result])]
                          ELSE decisions
    /\ nreq' = nreq + 1
    /\ UNCHANGED << clock, deployment >>
    /\ UNCHANGED concVars

\* One request through the middleware of limiter l whose keyGenerator throws:
\* control goes from line 227 straight to the catch clause.
KeyFailure(l) ==
    /\ nreq < MaxRequests
    /\ l \in deployment
    /\ last' = [NoLast EXCEPT !.limiter = l, !.now = clock, !.threw = TRUE,
                              !.response = catchError(EmptyResponse),
                              !.statsBefore = stats, !.keyThrew = TRUE]
    /\ nreq' = nreq + 1
    /\ UNCHANGED << clock, store, deployment, stats, uniqueKeys, allowedLog,
                    cleared, decisions >>
    /\ UNCHANGED concVars

\* store.delete(key) for a client key.  The histories kept for the claims
\* (allowedLog, decisions) are histories since the key's state was last
\* cleared, so they start again.
Delete(key) ==
    /\ nreq < MaxRequests
    /\ key \in Clients
    /\ store' = delete(store, PlainKey(key))
    /\ cleared' = [cleared EXCEPT ![key] = "delete"]
    /\ last' = NoLast
    /\ allowedLog' = [allowedLog EXCEPT ![key] = << >>]
    /\ decisions' = [l \in deployment |-> [decisions[l] EXCEPT ![key] = << >>]]
    /\ nreq' = nreq + 1
    /\ UNCHANGED << clock, deployment, stats, uniqueKeys >>
    /\ UNCHANGED concVars

\* POST /stats/reset: resetStats() and store.reset(), in one synchronous
\* stretch (MemoryStore.reset has no await inside).
StatsReset ==
    /\ nreq < MaxRequests
    /\ stats' = resetStats(stats)
    /\ uniqueKeys' = {}
    /\ store' = reset(store)
    /\ cleared' = [k \in Keys |-> "reset"]
    /\ last' = NoLast
    /\ allowedLog' = [k \in Keys |-> << >>]
    /\ decisions' = NoDecisions
    /\ nreq' = nreq + 1
    /\ UNCHANGED << clock, deployment >>
    /\ UNCHANGED concVars

Next ==
    \/ Tick
    \/ \E l \in LimiterIds, key \in Keys, fail \in 0..3 : Request(l, key, fail)
    \/ \E l \in LimiterIds : KeyFailure(l)
    \/ \E key \in Keys : Delete(key)
    \/ StatsReset

Spec == Init /\ [][Next]_vars

\* ------------------------------------------------------------ scenarios

\* One limiter alone on its store, serving one client at the instants of an
\* end-to-end scenario: the token bucket with bucketSize 10 refilled by 1 every
\* 1000 ms (s3), the leaking bucket with queueSize 3 processing 1 per second
\* (s4), and the sliding window counter with a 60 s window (s5), its limit and
\* request numbers scaled down by 10.
ScenarioLimiters == {"s3", "s4", "s5"}

ScenarioKey == "ip1"

ScenarioInstants(l) ==
    CASE l = "s3" -> {0, 500, 1500, 2000, 3000}
      [] l = "s4" -> {0, 1200}
      [] l = "s5" -> {0, 30000, 84000}

InitScenario ==
    /\ clock = 0
    /\ store = EmptyStore
    /\ \E l \in ScenarioLimiters : deployment = Constructed({l})
    /\ stats = InitStats
    /\ uniqueKeys = {}
    /\ last = NoLast
    /\ allowedLog = [k \in Keys |-> << >>]
    /\ nreq = 0
    /\ cleared = NotCleared
    /\ decisions = NoDecisions
    /\ mode = "scenario"
    /\ procs = << >>
    /\ redis = EmptyMap

ScenarioTick ==
    /\ \E l \in deployment : \E t \in ScenarioInstants(l) : t > clock /\ clock' = t
    /\ UNCHANGED << store, deployment, stats, uniqueKeys, last, allowedLog, nreq,
                    cleared, decisions >>
    /\ UNCHANGED concVars

ScenarioRequest == \E l \in ScenarioLimiters : Request(l, ScenarioKey, 0)

NextScenario == ScenarioTick \/ ScenarioRequest

SpecScenario == InitScenario /\ [][NextScenario]_vars

\* ------------------------------------------------- requests, one at a time

\* a request has been handled
Handled == last.limiter # "none"

LastConfig == Limiters[last.limiter]

\* the last request got a decision from its limiter
Decided == Handled /\ ~last.threw

Rejected == Decided /\ ~last.result.allowed

\* the allowed decisions of key k whose instant lies in (t - windowMs, t]
AllowedIn(k, windowMs, t) ==
    { i \in 1..Len(allowedLog[k]) :
        allowedLog[k][i] > t - windowMs /\ allowedLog[k][i] <= t }

\* C1: with one sliding-window-log limiter and its requests handled one after
\* the other, no key has more than maxRequests allowed decisions in any
\* trailing window (t - windowMs, t].  (The count is largest at an instant of
\* a decision, and every decision is taken at one of Instants.)
C1_SlidingWindowLogLimit ==
    deployment = {"swl"} =>
        \A k \in Keys, t \in Instants :
            Cardinality(AllowedIn(k, Limiters.swl.windowMs, t))
                <= Limiters.swl.maxRequests

\* C1's case: the limit was reached inside one window and the next request
\* of the key was refused.
C1_Witness ==
    /\ deployment = {"swl"}
    /\ Rejected
    /\ Cardinality(AllowedIn(last.key, Limiters.swl.windowMs, clock))
           = Limiters.swl.maxRequests

\* C3: after every Check of a token bucket limiter, the token count stored
\* for the key lies in [0, bucketSize].
C3_TokenBucketBounds ==
    (Handled /\ LastConfig.algorithm = "TOKEN_BUCKET"
        /\ PlainKey(last.key) \in DOMAIN store.bucketStates) =>
        LET tokens == store.bucketStates[PlainKey(last.key)].value.tokens
        IN /\ ~QLess(tokens, QInt(0))
           /\ ~QLess(QInt(TB_bucketSize(LastConfig)), tokens)

\* C4: after every Check of a leaking bucket limiter, the queue stored for
\* the key is no longer than that limiter's queueSize.
C4_LeakingQueueBound ==
    (Handled /\ LastConfig.algorithm = "LEAKING_BUCKET"
        /\ PlainKey(last.key) \in DOMAIN store.queueStates) =>
        Len(store.queueStates[PlainKey(last.key)].value.queue)
            <= LB_queueSize(LastConfig)

\* C6: a request whose limiter threw is forwarded, carries no header, and
\* leaves the statistics (uniqueKeys included) as they were before it.
C6_FailOpen ==
    (Handled /\ last.threw) =>
        /\ last.response.nextCalls = 1
        /\ last.response.sent = 0
        /\ DOMAIN last.response.headers = {}
        /\ stats = last.statsBefore

\* C6's case: the limiter threw on a request from a key not seen before,
\* after other requests had been counted.
C6_Witness ==
    /\ Handled
    /\ last.threw
    /\ stats.totalRequests > 0
    /\ Cardinality(uniqueKeys) > stats.uniqueKeys

\* C7: every request ends either forwarded once or answered once with the
\* configured status code (429 when none is configured), never both and
\* never neither, whether or not the limiter threw.
C7_OneOutcome ==
    Handled =>
        /\ last.response.nextCalls + last.response.sent = 1
        /\ last.response.sent = 1 =>
               last.response.status =
                   (IF LastConfig.statusCode = 0 THEN DefaultStatusCode
                    ELSE LastConfig.statusCode)
        /\ last.threw => last.response.nextCalls = 1

\* C7's case: a limiter that threw, after a rejection had been answered.
C7_Witness ==
    /\ Handled
    /\ last.threw
    /\ last.response.nextCalls = 1
    /\ stats.blockedRequests > 0

ServerLike == \A l \in deployment : IsWhole(TB_refillRate(Limiters[l]))

\* C9: through limiters configured as the server's are, every decision's
\* remaining is a non-negative integer, and 0 when the request is refused.
C9_Remaining ==
    (Decided /\ ServerLike) =>
        /\ IsWhole(last.result.remaining)
        /\ last.result.remaining.num >= 0
        /\ ~last.result.allowed => last.result.remaining = QInt(0)

\* C10: a rejection sent with headers enabled repeats the headers in its
\* body: limit, remaining (which is 0), retryAfter, and resetTime as the
\* instant of X-RateLimit-Reset.
C10_HeaderBodyAgreement ==
    (Handled /\ last.response.sent = 1 /\ LastConfig.headers) =>
        LET h == last.response.headers
            b == last.response.body[1]
        IN /\ b.limit = h["X-RateLimit-Limit"]
           /\ b.remaining = h["X-RateLimit-Remaining"]
           /\ b.remaining = QInt(0)
           /\ "Retry-After" \in DOMAIN h
           /\ b.retryAfter = Some(h["Retry-After"])
           /\ b.resetTime = [seconds |-> h["X-RateLimit-Reset"], millis |-> 0]

\* ------------------------------------------------------ concurrent callers

\* What the callers of one run do: Checks of the fixed-window limiter on the
\* MemoryStore, bare increments of the MemoryStore, or bare increments of
\* the RedisStore.
ConcModes == { "fixedWindow", "incrementMemory", "incrementRedis" }

Procs == 1..NumProcs

\* the limiter of the concurrent Checks, and the window length handed to the
\* bare increments
ConcConfig == Limiters.fw

\* overlapped: the call was made while another caller was suspended
IdleProc ==
    [pc |-> "idle", key |-> "none", at |-> 0, overlapped |-> FALSE, value |-> 0,
     windowStart |-> 0, result |-> NoResult]

Suspended(p) == procs[p].pc \in { "awaiting", "sent", "replied" }

\* the instants the concurrent callers act at: the first and the last
\* millisecond of each window
ConcInstants ==
    { t \in Instants : t % ConcConfig.windowMs \in { 0, ConcConfig.windowMs - 1 } }

\* The Redis server: a key holds a value and, once PEXPIRE has run, the
\* instant it expires at; a key past that instant is gone.
RedisLive(key, now) == key \in DOMAIN redis /\ now < redis[key].expiresAt

\* MULTI / INCR key / PEXPIRE key windowMs / EXEC, run by the server in one
\* piece at its instant `now`
RedisIncrExpire(key, windowMs, now) ==
    LET value == IF RedisLive(key, now) THEN redis[key].value + 1 ELSE 1
    IN [redis |-> MapSet(redis, key, [value |-> value, expiresAt |-> now + windowMs]),
        reply |-> value]

InitConc ==
    /\ clock = 0
    /\ store = EmptyStore
    /\ deployment = {"fw"}
    /\ stats = InitStats
    /\ uniqueKeys = {}
    /\ last = NoLast
    /\ allowedLog = [k \in Keys |-> << >>]
    /\ nreq = 0
    /\ cleared = NotCleared
    /\ decisions = NoDecisions
    /\ mode \in ConcModes
    /\ procs = [p \in Procs |-> IdleProc]
    /\ redis = EmptyMap

seqVars == << deployment, stats, uniqueKeys, last, allowedLog, nreq, cleared,
             decisions >>

\* Time passes while callers are suspended.
TickConc ==
    /\ \E t \in ConcInstants : t > clock /\ clock' = t
    /\ UNCHANGED << store, mode, procs, redis >>
    /\ UNCHANGED seqVars

\* FixedWindowRateLimiter.checkLimit up to its await: the window key is built
\* and MemoryStore.increment runs to its return before anyone else does.
FW_call(p, key) ==
    /\ mode = "fixedWindow"
    /\ procs[p].pc = "idle"
    /\ LET inc == increment(store, getWindowKey(ConcConfig, key, clock),
                            ConcConfig.windowMs, clock)
       IN /\ store' = inc.store
          /\ procs' = [procs EXCEPT ![p] =
                 [@ EXCEPT !.pc = "awaiting", !.key = key,
                           !.overlapped = \E q \in Procs : Suspended(q),
                           !.value = inc.ret,
                           !.windowStart = FW_windowStart(ConcConfig, clock)]]
    /\ UNCHANGED << clock, mode, redis >>
    /\ UNCHANGED seqVars

\* checkLimit from its await to its return
FW_resume(p) ==
    /\ mode = "fixedWindow"
    /\ procs[p].pc = "awaiting"
    /\ procs' = [procs EXCEPT ![p] =
           [@ EXCEPT !.pc = "done",
                     !.result = FW_result(ConcConfig, procs[p].value, clock)]]
    /\ UNCHANGED << clock, store, mode, redis >>
    /\ UNCHANGED seqVars

\* a caller's `await store.increment(key, windowMs)` on the MemoryStore: the
\* body of increment runs when it is called
Mem_call(p, key) ==
    /\ mode = "incrementMemory"
    /\ procs[p].pc = "idle"
    /\ LET inc == increment(store, PlainKey(key), ConcConfig.windowMs, clock)
       IN /\ store' = inc.store
          /\ procs' = [procs EXCEPT ![p] =
                 [@ EXCEPT !.pc = "awaiting", !.key = key, !.at = clock,
                           !.overlapped = \E q \in Procs : Suspended(q),
                           !.value = inc.ret]]
    /\ UNCHANGED << clock, mode, redis >>
    /\ UNCHANGED seqVars

Mem_resume(p) ==
    /\ mode = "incrementMemory"
    /\ procs[p].pc = "awaiting"
    /\ procs' = [procs EXCEPT ![p] = [@ EXCEPT !.pc = "done"]]
    /\ UNCHANGED << clock, store, mode, redis >>
    /\ UNCHANGED seqVars

\* RedisStore.increment up to its await: the transaction is on its way.
Redis_send(p, key) ==
    /\ mode = "incrementRedis"
    /\ procs[p].pc = "idle"
    /\ procs' = [procs EXCEPT ![p] = [@ EXCEPT !.pc = "sent", !.key = key,
                                              !.overlapped = \E q \in Procs : Suspended(q)]]
    /\ UNCHANGED << clock, store, mode, redis >>
    /\ UNCHANGED seqVars

\* The server runs one caller's transaction and replies.
Redis_exec(p) ==
    /\ mode = "incrementRedis"
    /\ procs[p].pc = "sent"
    /\ LET done == RedisIncrExpire(PlainKey(procs[p].key), ConcConfig.windowMs, clock)
       IN /\ redis' = done.redis
          /\ procs' = [procs EXCEPT ![p] =
                 [@ EXCEPT !.pc = "replied", !.at = clock, !.value = done.reply]]
    /\ UNCHANGED << clock, store, mode >>
    /\ UNCHANGED seqVars

\* RedisStore.increment from its await to its return: results[0][1].  (EXEC
\* replies null only to a transaction guarded by WATCH, which the store never
\* issues, so the plain INCR after it is never sent.)
Redis_return(p) ==
    /\ mode = "incrementRedis"
    /\ procs[p].pc = "replied"
    /\ procs' = [procs EXCEPT ![p] = [@ EXCEPT !.pc = "done"]]
    /\ UNCHANGED << clock, store, mode, redis >>
    /\ UNCHANGED seqVars

NextConc ==
    \/ TickConc
    \/ \E p \in Procs, key \in Keys : FW_call(p, key)
    \/ \E p \in Procs : FW_resume(p)
    \/ \E p \in Procs, key \in Keys : Mem_call(p, key)
    \/ \E p \in Procs : Mem_resume(p)
    \/ \E p \in Procs, key \in Keys : Redis_send(p, key)
    \/ \E p \in Procs : Redis_exec(p)
    \/ \E p \in Procs : Redis_return(p)

SpecConc == InitConc /\ [][NextConc]_vars

\* the Checks that have returned for key k, counted in the window starting at ws
ReturnedIn(k, ws) ==
    { p \in Procs : procs[p].pc = "done" /\ procs[p].key = k
                    /\ procs[p].windowStart = ws }

\* C2: however the concurrent Checks of one fixed-window limiter interleave,
\* a caller is allowed exactly when the count its increment returned is at
\* most maxRequests, and at most maxRequests of the Checks of one key counted
\* in one window are allowed.
C2_FixedWindowConcurrent ==
    mode = "fixedWindow" =>
        /\ \A p \in Procs : procs[p].pc = "done" =>
               (procs[p].result.allowed <=> procs[p].value <= ConcConfig.maxRequests)
        /\ \A k \in Keys, p \in Procs :
               Cardinality({ q \in ReturnedIn(k, procs[p].windowStart) :
                               procs[q].result.allowed })
                   <= ConcConfig.maxRequests

\* C2's case: more Checks than the limit on one key in one window, one of
\* them called while another was suspended, and one refused.
C2_Witness ==
    /\ mode = "fixedWindow"
    /\ \E k \in Keys, p \in Procs :
           /\ ReturnedIn(k, procs[p].windowStart) = Procs
           /\ \E q \in Procs : ~procs[q].result.allowed
           /\ \E q \in Procs : procs[q].overlapped

\* the increments of key k that have taken effect
Counted(k) ==
    { p \in Procs : procs[p].key = k /\ procs[p].pc \in { "awaiting", "replied", "done" } }

\* no increment of S came after the key could have expired
Unexpired(S) ==
    \A p, q \in S : procs[q].at < procs[p].at + ConcConfig.windowMs

\* C5: on either backend, the increments of one key that was absent at first
\* and has not expired since get the values 1..N, each once.
C5_AtomicIncrement ==
    mode \in { "incrementMemory", "incrementRedis" } =>
        \A k \in Keys :
            Unexpired(Counted(k)) =>
                /\ { procs[p].value : p \in Counted(k) } = 1..Cardinality(Counted(k))
                /\ \A p, q \in Counted(k) : procs[p].value = procs[q].value => p = q

\* C5's case: every caller has an increment of the same key in flight at the
\* Redis server at once, and each has been given its value.
C5_Witness ==
    /\ mode = "incrementRedis"
    /\ \E k \in Keys :
           /\ \A p \in Procs : procs[p].pc = "replied" /\ procs[p].key = k
           /\ Unexpired(Procs)
           /\ \E p, q \in Procs : procs[p].at < procs[q].at

\* ------------------------------------------- what a decision reports

CounterBased == { "FIXED_WINDOW", "SLIDING_WINDOW_COUNTER" }

\* C11 as stated: a fixed-window or sliding-window-counter decision has
\* remaining = max(0, limit - currentCount - (allowed ? 1 : 0)), all taken
\* from the fields of that decision.
C11_RemainingAsStated ==
    (Decided /\ LastConfig.algorithm \in CounterBased) =>
        last.result.remaining =
            QMax(QInt(0),
                 QSub(QSub(QInt(last.result.limit), last.result.currentCount),
                      QInt(IF last.result.allowed THEN 1 ELSE 0)))

\* C11 amended: a fixed-window or sliding-window-counter decision has
\* remaining = max(0, limit - currentCount); the decision's currentCount
\* already counts the request it allows.
C11_RemainingFormula ==
    (Decided /\ LastConfig.algorithm \in CounterBased) =>
        last.result.remaining =
            QMax(QInt(0), QSub(QInt(last.result.limit), last.result.currentCount))

\* C11's case: an allowed sliding-window-counter decision that leaves
\* something over.
C11_Witness ==
    /\ Decided
    /\ LastConfig.algorithm = "SLIDING_WINDOW_COUNTER"
    /\ last.result.allowed
    /\ last.result.currentCount = QInt(1)
    /\ last.result.remaining = QInt(1)

\* ------------------------------------------------- decisions compared

\* The decisions limiter l has made for client key k, oldest first.
DecisionsOf(l, k) == decisions[l][k]

FixedWindowLimiters == { l \in deployment : Limiters[l].algorithm = "FIXED_WINDOW" }

\* i and j index two allowed decisions with no allowed decision between them.
ConsecutiveAllowed(ds, i, j) ==
    /\ i < j
    /\ ds[i].result.allowed /\ ds[j].result.allowed
    /\ \A m \in (i + 1)..(j - 1) : ~ds[m].result.allowed

\* C12: of two consecutive allowed fixed-window decisions for the same key
\* inside the same fixed window, the second reports the first one's remaining
\* minus 1.
C12_FixedWindowSteps ==
    \A l \in FixedWindowLimiters, k \in Keys :
        LET ds == DecisionsOf(l, k) IN
        \A i, j \in DOMAIN ds :
            ( /\ ConsecutiveAllowed(ds, i, j)
              /\ FW_windowStart(Limiters[l], ds[i].now) = FW_windowStart(Limiters[l], ds[j].now) )
            => ds[j].result.remaining = QSub(ds[i].result.remaining, QInt(1))

\* The epoch-aligned window of length windowMs that instant t lies in.
EpochWindow(cfg, t) == FloorDiv(t, cfg.windowMs)

\* Limiter l never reports, for one key, an earlier resetTime in a later
\* decision of the same epoch-aligned window.
ResetMonotone(l) ==
    \A k \in Keys :
        LET ds == DecisionsOf(l, k) IN
        \A i, j \in DOMAIN ds :
            ( /\ i < j
              /\ EpochWindow(Limiters[l], ds[i].now) = EpochWindow(Limiters[l], ds[j].now) )
            => ds[j].result.resetTime >= ds[i].result.resetTime

\* C13: for every algorithm and one key, of two decisions made at t1 <= t2
\* inside the same epoch-aligned window of length windowDuration, the later
\* one's resetTime is at least the earlier one's.
C13_ResetMonotonicity == \A l \in deployment : ResetMonotone(l)

\* ------------------------------------------------------ state lifetime

\* The stored entries the last decided request wrote: the window counter it
\* incremented, the log it added to, the bucket or the queue it saved.
WrittenByLast ==
    LET cfg == LastConfig
        alg == cfg.algorithm
        wk  == WindowKey(last.key, FW_windowStart(cfg, last.now))
        pk  == PlainKey(last.key)
    IN  { store.counters[x] : x \in
            { y \in {wk} : /\ alg \in CounterBased
                           /\ alg = "FIXED_WINDOW" \/ last.result.allowed
                           /\ y \in DOMAIN store.counters } }
        \cup { store.timestamps[x] : x \in
            { y \in {pk} : /\ alg = "SLIDING_WINDOW_LOG" /\ last.result.allowed
                           /\ y \in DOMAIN store.timestamps } }
        \cup { store.bucketStates[x] : x \in
            { y \in {pk} : alg = "TOKEN_BUCKET" /\ y \in DOMAIN store.bucketStates } }
        \cup { store.queueStates[x] : x \in
            { y \in {pk} : alg = "LEAKING_BUCKET" /\ y \in DOMAIN store.queueStates } }

\* C14: whatever an algorithm writes for a key stays readable for at least
\* 2 x windowMs after the write: it does not expire before then.
C14_StateLifetime ==
    Decided => \A e \in WrittenByLast : e.expiresAt >= last.now + 2 * LastConfig.windowMs

\* The decisions of limiter l for key k that were allowed in the epoch-aligned
\* window number w.
AllowedDuring(l, k, w) ==
    { i \in DOMAIN DecisionsOf(l, k) :
        /\ DecisionsOf(l, k)[i].result.allowed
        /\ EpochWindow(Limiters[l], DecisionsOf(l, k)[i].now) = w }

\* C15: the previous-window count a sliding-window-counter Check uses is the
\* number of requests allowed for that key during the immediately preceding
\* window.  (The Check leaves the preceding window's counter as it found it,
\* so the count it used is the one read back at the Check's instant.)
C15_PreviousWindowCount ==
    (Decided /\ LastConfig.algorithm = "SLIDING_WINDOW_COUNTER") =>
        SWC_previousWindowCount(store, LastConfig, last.key, last.now)
            = Cardinality(AllowedDuring(last.limiter, last.key,
                                        EpochWindow(LastConfig, last.now) - 1))

\* ------------------------------------------------ clearing a key's state

\* The decision limiter l gives key k at instant t when k was never seen.
NeverSeenDecision(l, k, t) == checkLimit(EmptyStore, Limiters[l], k, t, 0).result

\* The last request was decided as a request for a never-seen key is.
LastAsNeverSeen == last.result = NeverSeenDecision(last.limiter, last.key, last.now)

\* C16: the first Check for client key K after store.delete(K) returns what a
\* Check for a never-seen key returns, under every algorithm.
C16_DeleteClearsClient == (Decided /\ last.after = "delete") => LastAsNeverSeen

\* C17: right after POST /stats/reset every statistic and the set of keys are
\* at 0 and the store is empty, and the first Check for any key after it is
\* decided as a Check for a never-seen key.
C17_StatsReset ==
    /\ (~Handled /\ \A k \in Keys : cleared[k] = "reset") =>
            /\ stats.totalRequests = 0 /\ stats.allowedRequests = 0
            /\ stats.blockedRequests = 0 /\ stats.uniqueKeys = 0
            /\ uniqueKeys = {}
            /\ \A a \in Algorithms :
                   stats.requestsByAlgorithm[a] = [total |-> 0, allowed |-> 0, blocked |-> 0]
            /\ store = EmptyStore
    /\ (Decided /\ last.after = "reset") => LastAsNeverSeen

\* C17's case: requests were counted and state stored, the reset happened, and
\* the next request of a client that had used up its limit is allowed again
\* and counted as the first.
C17_Witness ==
    /\ Decided /\ last.after = "reset"
    /\ last.now > 0
    /\ last.result.allowed
    /\ stats.totalRequests = 1 /\ stats.uniqueKeys = 1
    /\ LastConfig.algorithm = "FIXED_WINDOW" /\ LastConfig.maxRequests = 1

\* ---------------------------------------------------------- construction

ValidConfig(cfg) ==
    /\ cfg.algorithm \in Algorithms
    /\ cfg.windowMs > 0
    /\ cfg.maxRequests > 0

\* C18: no middleware exists, and no request is decided, with a configuration
\* whose algorithm is unknown, whose windowMs is <= 0 or whose maxRequests
\* is <= 0.
C18_ConstructionValidation ==
    /\ Decided => ValidConfig(LastConfig)
    /\ nreq > 0 => \A l \in deployment : ValidConfig(Limiters[l])

\* ----------------------------------------------------- key extractor

UnknownKey == "unknown"

\* C19: a request whose key extractor throws is processed as a request with
\* the key "unknown": the limiter is consulted with that key, the statistics
\* and the set of keys are updated, and the response is the one that
\* decision gives (headers, then forwarded or rejected).
C19_KeyExtractorFailure ==
    [][ (last'.keyThrew /\ nreq' = nreq + 1) =>
            LET cfg == Limiters[last'.limiter]
                out == checkLimit(store, cfg, UnknownKey, clock, 0)
            IN /\ store' = out.store
               /\ uniqueKeys' = uniqueKeys \cup {UnknownKey}
               /\ stats' = statsAfter(stats, cfg, out,
                                      Cardinality(uniqueKeys \cup {UnknownKey}))
               /\ last'.response = respond(cfg, out) ]_vars

\* ------------------------------------------------------ boundary burst

\* The allowed decisions among ds made from the instant of decision i on and
\* less than windowMs after it.
AllowedWithin(ds, i, windowMs) ==
    { j \in DOMAIN ds : /\ ds[j].result.allowed
                        /\ ds[j].now >= ds[i].now
                        /\ ds[j].now - ds[i].now < windowMs }

ScenarioDecisions(l) == IF l \in deployment THEN decisions[l][ScenarioKey] ELSE << >>

\* The decisions ds were made at the instants the script `times` gives, as
\* far as they go.
FollowsScript(ds, times) ==
    /\ Len(ds) <= Len(times)
    /\ \A i \in DOMAIN ds : ds[i].now = times[i]

\* S3: 10 requests at 0 ms, 1 at 500 ms, 3 at 3000 ms
S3Times == [i \in 1..14 |-> IF i <= 10 THEN 0 ELSE IF i = 11 THEN 500 ELSE 3000]

\* C21 as stated: in S3 the 10 requests at t = 0 are allowed, the one at 0.5 s
\* is denied with retryAfter 1, and of the 3 at t = 3 s the first two are
\* allowed and the third is denied.
C21_ScenarioAsStated ==
    LET ds == ScenarioDecisions("s3") IN
    FollowsScript(ds, S3Times) =>
        \A i \in DOMAIN ds :
            /\ ds[i].result.allowed = (i \notin {11, 14})
            /\ i = 11 => ds[i].result.retryAfter = Some(1)

\* C21 amended: in S3 the 10 requests at t = 0 are allowed, the one at 0.5 s
\* is denied with retryAfter 1, and the 3 at t = 3 s are all allowed.
C21_TokenBucketScenario ==
    LET ds == ScenarioDecisions("s3") IN
    FollowsScript(ds, S3Times) =>
        \A i \in DOMAIN ds :
            /\ ds[i].result.allowed = (i # 11)
            /\ i = 11 => ds[i].result.retryAfter = Some(1)

\* C21's case: the whole of S3 has run, and its last request was allowed
\* with nothing left over.
C21_Witness ==
    LET ds == ScenarioDecisions("s3") IN
    /\ Len(ds) = 14
    /\ FollowsScript(ds, S3Times)
    /\ ~ds[11].result.allowed
    /\ ds[14].result.allowed /\ ds[14].result.remaining = QInt(0)

\* S4: 4 requests at 0 ms, 1 at 1200 ms
S4Times == [i \in 1..5 |-> IF i <= 4 THEN 0 ELSE 1200]

\* C22: in S4, of the 4 requests at t = 0 the first 3 are allowed and the 4th
\* is denied with retryAfter 1, and the request at t = 1.2 s is allowed.
C22_LeakingBucketScenario ==
    LET ds == ScenarioDecisions("s4") IN
    FollowsScript(ds, S4Times) =>
        \A i \in DOMAIN ds :
            /\ ds[i].result.allowed = (i # 4)
            /\ i = 4 => ds[i].result.retryAfter = Some(1)

\* C22's case: the whole of S4 has run; the 4th request was denied and the
\* one at 1.2 s took the slot that had leaked.
C22_Witness ==
    LET ds == ScenarioDecisions("s4") IN
    /\ Len(ds) = 5
    /\ FollowsScript(ds, S4Times)
    /\ ~ds[4].result.allowed /\ ds[4].result.retryAfter = Some(1)
    /\ ds[5].result.allowed /\ ds[5].result.currentCount = QInt(3)

\* The allowed decisions before the i-th one that fall in epoch window w.
AllowedBefore(cfg, ds, i, w) ==
    { j \in 1..(i - 1) : ds[j].result.allowed /\ EpochWindow(cfg, ds[j].now) = w }

\* S5 with its own numbers: 60 s windows, 100 requests.
S5AsWritten == Config("SLIDING_WINDOW_COUNTER", 60000, 100)

\* C23: in S5 (run here at one tenth of the counts: limit 10, 7 allowed in the
\* prior window, 3 in the current one) a Check 24 s into the current window
\* estimates floor(3 + 7 x 0.6) = 7 and is allowed (30 + 70 x 0.6 = 72 with
\* the scenario's numbers), and a Check is denied exactly when
\* floor(curr + prev x overlap) >= maxRequests, curr and prev being the
\* requests allowed in the current and in the prior window.
C23_SlidingWindowCounterScenario ==
    LET ds == ScenarioDecisions("s5")
        cfg == Limiters.s5
    IN  /\ SWC_estimatedFloor(S5AsWritten, 30, 70, 84000) = 72
        /\ \A i \in DOMAIN ds :
              LET w == EpochWindow(cfg, ds[i].now)
                  curr == Cardinality(AllowedBefore(cfg, ds, i, w))
                  prev == Cardinality(AllowedBefore(cfg, ds, i, w - 1))
                  est == SWC_estimatedFloor(cfg, curr, prev, ds[i].now)
              IN  /\ ds[i].result.allowed = (est < cfg.maxRequests)
                  /\ (prev = 7 /\ curr = 3 /\ ds[i].now = 84000) =>
                        /\ est = 7
                        /\ ds[i].result.allowed
                        /\ ds[i].result.currentCount = QInt(est + 1)

\* The entries of map m stored under client key k (the key itself or the
\* key with a window start appended).
EntriesOf(m, k) == [x \in { y \in DOMAIN m : y[1] = k } |-> m[x]]

\* All stored state of client key k.
OnlyKey(st, k) ==
    [counters |-> EntriesOf(st.counters, k),
     timestamps |-> EntriesOf(st.timestamps, k),
     bucketStates |-> EntriesOf(st.bucketStates, k),
     queueStates |-> EntriesOf(st.queueStates, k)]

\* the step is one request that reached the limiter's checkLimit
IsCheckStep == nreq' = nreq + 1 /\ last'.limiter # "none" /\ ~last'.keyThrew

\* C24: a Check on key A leaves all stored state and the decision history of
\* every other key B as they were, and the decision it returns is the one
\* computed from A's own stored state alone; so B's decisions are the same
\* whatever Checks on A come in between.
C24_KeyIndependence ==
    [][ IsCheckStep =>
          /\ \A b \in Keys \ {last'.key} :
                /\ OnlyKey(store', b) = OnlyKey(store, b)
                /\ decisions'[last'.limiter][b] = decisions[last'.limiter][b]
          /\ ~last'.threw =>
                last'.result =
                    checkLimit(OnlyKey(store, last'.key), Limiters[last'.limiter],
                               last'.key, last'.now, 0).result ]_vars

\* C24's case: an allowed Check on ip1 has just written ip1's state while
\* ip2 has stored state and decisions of its own under the same limiter.
C24_Witness ==
    /\ Decided /\ last.key = "ip1" /\ last.result.allowed
    /\ OnlyKey(store, "ip1") # EmptyStore
    /\ OnlyKey(store, "ip2") # EmptyStore
    /\ Len(decisions[last.limiter]["ip2"]) > 0

\* C25: the uniqueKeys of the statistics is the number of distinct client keys
\* the middleware has derived since the last reset, requests that ended in
\* fail-open included (uniqueKeys is the module's Set of derived keys).
C25_UniqueKeys == stats.uniqueKeys = Cardinality(uniqueKeys)

\* ------------------------------------- the timestamp log on both backends

\* Number.prototype.toString() of a non-negative integer: its decimal digits
RECURSIVE toString(_)
toString(n) == IF n < 10 THEN << n >> ELSE Append(toString(n \div 10), n % 10)

\* parseInt(s, 10) of a string of decimal digits
RECURSIVE parseInt(_)
parseInt(s) ==
    IF Len(s) = 0 THEN 0 ELSE parseInt(SubSeq(s, 1, Len(s) - 1)) * 10 + s[Len(s)]

\* `${this.getKey(key)}:ts`
RedisTsKey(key) == << key, "ts" >>

\* A sorted set is a map from member to score: a member is in it once.
RedisSortedSet(r, redisKey, now) ==
    IF redisKey \in DOMAIN r /\ now < r[redisKey].expiresAt
    THEN r[redisKey].value
    ELSE EmptyMap

\* The members of a sorted set in the order of their scores.
RECURSIVE ByScore(_, _)
ByScore(zset, members) ==
    IF members = {} THEN << >>
    ELSE LET first == CHOOSE m \in members : \A o \in members : zset[m] <= zset[o]
         IN << first >> \o ByScore(zset, members \ {first})

\* MULTI / ZADD redisKey timestamp timestamp.toString() / PEXPIRE / EXEC
Redis_addTimestamp(r, key, timestamp, windowMs, now) ==
    LET zset == RedisSortedSet(r, RedisTsKey(key), now)
    IN MapSet(r, RedisTsKey(key),
              [value |-> MapSet(zset, toString(timestamp), timestamp),
               expiresAt |-> now + windowMs])

\* ZRANGEBYSCORE redisKey minTimestamp +inf, each member through parseInt
Redis_getTimestamps(r, key, minTimestamp, now) ==
    LET zset == RedisSortedSet(r, RedisTsKey(key), now)
        results == ByScore(zset, { m \in DOMAIN zset : zset[m] >= minTimestamp })
    IN [i \in DOMAIN results |-> parseInt(results[i])]

\* ZREMRANGEBYSCORE redisKey -inf minTimestamp - 1 (a sorted set left empty
\* is removed with its key)
Redis_removeOldTimestamps(r, key, minTimestamp, now) ==
    LET zset == RedisSortedSet(r, RedisTsKey(key), now)
        kept == { m \in DOMAIN zset : ~(zset[m] <= minTimestamp - 1) }
    IN IF RedisTsKey(key) \notin DOMAIN r THEN r
       ELSE IF kept = {} THEN MapDelete(r, RedisTsKey(key))
       ELSE MapSet(r, RedisTsKey(key),
                   [r[RedisTsKey(key)] EXCEPT !.value = [m \in kept |-> zset[m]]])

\* SlidingWindowLogRateLimiter.checkLimit on a RedisStore
SWL_checkLimitRedis(r, cfg, key, now) ==
    LET windowStart == now - cfg.windowMs
        r1 == Redis_removeOldTimestamps(r, key, windowStart, now)
        timestamps == Redis_getTimestamps(r1, key, windowStart, now)
        allowed == SWL_allowed(cfg, Len(timestamps))
    IN [store |-> IF allowed
                  THEN Redis_addTimestamp(r1, key, now, cfg.windowMs, now)
                  ELSE r1,
        result |-> SWL_result(cfg, timestamps, allowed, now)]

\* Two sliding-window-log limiters of the same configuration, one on a
\* MemoryStore and one on a RedisStore, are given the same Checks at the
\* same instants.
BackendConfig == Limiters.swl

InitBackends ==
    /\ clock = 0
    /\ store = EmptyStore
    /\ deployment = {"swl"}
    /\ stats = InitStats
    /\ uniqueKeys = {}
    /\ last = NoLast
    /\ allowedLog = [k \in Keys |-> << >>]
    /\ nreq = 0
    /\ cleared = NotCleared
    /\ decisions = NoDecisions
    /\ mode = "backends"
    /\ procs = << >>
    /\ redis = EmptyMap

\* checkLimit(key) on both limiters at the instant `clock`
LogCheck(key) ==
    /\ mode = "backends"
    /\ nreq < Budget
    /\ LET mem == SWL_checkLimit(store, BackendConfig, key, clock, 0)
           red == SWL_checkLimitRedis(redis, BackendConfig, key, clock)
       IN /\ store' = mem.store
          /\ redis' = red.store
          /\ last' = [NoLast EXCEPT !.limiter = "swl", !.key = key, !.now = clock,
                                    !.result = mem.result]
          /\ decisions' = [decisions EXCEPT !["swl"][key] =
                              Append(@, [now |-> clock, result |-> mem.result])]
    /\ nreq' = nreq + 1
    /\ UNCHANGED << clock, deployment, stats, uniqueKeys, allowedLog, cleared,
                    mode, procs >>

NextBackends == Tick \/ \E key \in Keys : LogCheck(key)

SpecBackends == InitBackends /\ [][NextBackends]_vars

\* how often t occurs in the sequence s
Occurrences(s, t) == Cardinality({ i \in DOMAIN s : s[i] = t })

\* C26: the timestamp log is a multiset on both backends.  Every
\* AddTimestamp(key, t, W) adds one more entry equal to t to what
\* GetTimestamps(key, minT), minT <= t, returns, on the MemoryStore and on the
\* RedisStore (so k calls with the same t give k entries), and the
\* sliding-window-log Check returns the same result on both.
C26_TimestampMultiset ==
    [][ (mode = "backends" /\ nreq' = nreq + 1) =>
          LET key == last'.key
              t == clock
              mem == SWL_checkLimit(store, BackendConfig, key, t, 0).result
              red == SWL_checkLimitRedis(redis, BackendConfig, key, t).result
          IN /\ \A minT \in { m \in Instants : m <= t } :
                   /\ mem.allowed =>
                         Occurrences(getTimestamps(store', PlainKey(key), minT, t), t)
                           = Occurrences(getTimestamps(store, PlainKey(key), minT, t), t) + 1
                   /\ red.allowed =>
                         Occurrences(Redis_getTimestamps(redis', key, minT, t), t)
                           = Occurrences(Redis_getTimestamps(redis, key, minT, t), t) + 1
             /\ mem = red ]_vars

\* The allowed decisions before the i-th one whose instant lies in
\* (ds[i].now - windowMs, ds[i].now].
AllowedInWindowBefore(ds, i, windowMs) ==
    { j \in 1..(i - 1) : /\ ds[j].result.allowed
                         /\ ds[j].now > ds[i].now - windowMs
                         /\ ds[j].now <= ds[i].now }

\* C27: the count a sliding-window-log Check at time now decides on (the
\* currentCount it reports, less the request itself when allowed) is the
\* number of requests allowed before it for the key at a time in
\* (now - windowMs, now]: one allowed exactly windowMs earlier is not counted,
\* every one allowed less than windowMs earlier is.
C27_SlidingWindowLogExactness ==
    deployment = {"swl"} =>
        \A k \in Keys :
            LET ds == DecisionsOf("swl", k) IN
            \A i \in DOMAIN ds :
                ds[i].result.currentCount =
                    QInt(Cardinality(AllowedInWindowBefore(ds, i, Limiters.swl.windowMs))
                           + (IF ds[i].result.allowed THEN 1 ELSE 0))

\* The tokens in the bucket when decision d was taken, after the refill and
\* before the request's own token was consumed.
TokensAfterRefill(d) ==
    QAdd(d.result.remaining, QInt(IF d.result.allowed THEN 1 ELSE 0))

\* C28: for a key of the S3 token bucket (refillRate 1 per 1000 ms) whose
\* bucket is never refilled to capacity after its first Check at t0, the
\* tokens added up to a Check at time t (the tokens found then, less the
\* initial bucketSize, plus the tokens consumed before) number
\* floor((t - t0) / refillInterval) x refillRate: no part of an interval is
\* ever lost.
C28_SubIntervalTime ==
    LET ds == ScenarioDecisions("s3")
        cfg == Limiters.s3
        size == QInt(TB_bucketSize(cfg))
    IN \A i \in DOMAIN ds :
         (\A j \in 2..i : QLess(TokensAfterRefill(ds[j]), size)) =>
            QAdd(TokensAfterRefill(ds[i]),
                 QInt(Cardinality({ j \in 1..(i - 1) : ds[j].result.allowed })))
              = QAdd(size,
                     QMulInt(TB_refillRate(cfg),
                             FloorDiv((ds[i].now - ds[1].now) * TB_intervalDen(cfg),
                                      TB_intervalNum(cfg))))

\* ------------------------------ concurrent Checks of a sliding window log

\* Callers of one SlidingWindowLogRateLimiter.checkLimit for one key, on a
\* MemoryStore or on a RedisStore; at most two Checks are in progress at a
\* time.  A caller is suspended at each await of a store operation.
LogModes == { "logMemory", "logRedis" }

LogKey == "ip1"

LogIdle == [pc |-> "idle", at |-> 0, timestamps |-> << >>]

InProgress == { p \in Procs : procs[p].pc # "idle" }

InitLog ==
    /\ clock = 0
    /\ store = EmptyStore
    /\ deployment = {"swl"}
    /\ stats = InitStats
    /\ uniqueKeys = {}
    /\ last = NoLast
    /\ allowedLog = [k \in Keys |-> << >>]
    /\ nreq = 0
    /\ cleared = NotCleared
    /\ decisions = NoDecisions
    /\ mode \in LogModes
    /\ procs = [p \in Procs |-> LogIdle]
    /\ redis = EmptyMap

\* checkLimit up to its first await: now is read, removeOldTimestamps runs
SWL_call(p) ==
    /\ mode \in LogModes
    /\ procs[p].pc = "idle"
    /\ nreq < ConcChecks
    /\ Cardinality(InProgress) < 2
    /\ procs' = [procs EXCEPT ![p] = [pc |-> "removed", at |-> clock,
                                      timestamps |-> << >>]]
    /\ IF mode = "logMemory"
       THEN /\ store' = removeOldTimestamps(store, PlainKey(LogKey),
                                            clock - BackendConfig.windowMs, clock)
            /\ UNCHANGED redis
       ELSE /\ redis' = Redis_removeOldTimestamps(redis, LogKey,
                                                  clock - BackendConfig.windowMs, clock)
            /\ UNCHANGED store
    /\ nreq' = nreq + 1
    /\ UNCHANGED << clock, deployment, stats, uniqueKeys, last, allowedLog,
                    cleared, decisions, mode >>

\* from the first await to the second: getTimestamps runs
SWL_read(p) ==
    /\ mode \in LogModes
    /\ procs[p].pc = "removed"
    /\ LET windowStart == procs[p].at - BackendConfig.windowMs
           timestamps ==
               IF mode = "logMemory"
               THEN getTimestamps(store, PlainKey(LogKey), windowStart, clock)
               ELSE Redis_getTimestamps(redis, LogKey, windowStart, clock)
       IN procs' = [procs EXCEPT ![p] = [@ EXCEPT !.pc = "read",
                                                  !.timestamps = timestamps]]
    /\ UNCHANGED << clock, store, redis, deployment, stats, uniqueKeys, last,
                    allowedLog, nreq, cleared, decisions, mode >>

\* from the second await to the return: the decision is taken on the
\* timestamps read, and addTimestamp runs when the request is allowed
SWL_decide(p) ==
    /\ mode \in LogModes
    /\ procs[p].pc = "read"
    /\ LET cfg == BackendConfig
           now == procs[p].at
           timestamps == procs[p].timestamps
           allowed == SWL_allowed(cfg, Len(timestamps))
           result == SWL_result(cfg, timestamps, allowed, now)
       IN /\ IF allowed /\ mode = "logMemory"
             THEN store' = addTimestamp(store, PlainKey(LogKey), now, cfg.windowMs, clock)
             ELSE UNCHANGED store
          /\ IF allowed /\ mode = "logRedis"
             THEN redis' = Redis_addTimestamp(redis, LogKey, now, cfg.windowMs, clock)
             ELSE UNCHANGED redis
          /\ allowedLog' = IF allowed
                           THEN [allowedLog EXCEPT ![LogKey] = Append(@, now)]
                           ELSE allowedLog
          /\ last' = [NoLast EXCEPT !.limiter = "swl", !.key = LogKey, !.now = now,
                                    !.result = result]
          /\ decisions' = [decisions EXCEPT !["swl"][LogKey] =
                              Append(@, [now |-> now, result |-> result])]
    /\ procs' = [procs EXCEPT ![p] = LogIdle]
    /\ UNCHANGED << clock, deployment, stats, uniqueKeys, nreq, cleared, mode >>

NextLog ==
    \/ TickConc
    \/ \E p \in Procs : SWL_call(p)
    \/ \E p \in Procs : SWL_read(p)
    \/ \E p \in Procs : SWL_decide(p)

SpecLog == InitLog /\ [][NextLog]_vars

\* C29: with at most two sliding-window-log Checks of one key in progress at
\* a time, interleaved at the store operations, the allowed decisions of the
\* key in any trailing window (t - windowMs, t] number at most
\* maxRequests + 1.
C29_ConcurrentLogExcess ==
    mode \in LogModes =>
        \A t \in Instants :
            Cardinality(AllowedIn(LogKey, BackendConfig.windowMs, t))
                <= BackendConfig.maxRequests + 1

\* C30: a fixed-window Check reports as resetTime the end of the very window
\* whose counter it incremented, also when the clock advances, possibly
\* across a window boundary, while the Check is suspended at its await: the
\* window key and the resetTime come from one instant.
C30_OneInstantPerDecision ==
    mode = "fixedWindow" =>
        \A p \in Procs :
            procs[p].pc = "done" =>
                procs[p].result.resetTime =
                    CeilDiv(procs[p].windowStart + ConcConfig.windowMs, MsPerSec)

\* ------------------------------- requests in flight while the stats change

\* Requests through the middlewares of two limiters of different algorithms
\* on one store.  A request is suspended at `await rateLimiter.checkLimit(key)`
\* (the Check takes effect when it is called); other requests and resets run
\* before it resumes at Step 4.  At most two requests are in flight.
StatsDeployment == {"fwRaw", "swl"}

StatsIdle == [pc |-> "idle", limiter |-> "none", key |-> "none", at |-> 0,
              threw |-> FALSE, result |-> NoResult]

InitStatsConc ==
    /\ clock = 0
    /\ store = EmptyStore
    /\ deployment = Constructed(StatsDeployment)
    /\ stats = InitStats
    /\ uniqueKeys = {}
    /\ last = NoLast
    /\ allowedLog = [k \in Keys |-> << >>]
    /\ nreq = 0
    /\ cleared = NotCleared
    /\ decisions = NoDecisions
    /\ mode = "stats"
    /\ procs = [p \in Procs |-> StatsIdle]
    /\ redis = EmptyMap

\* the handler up to `await rateLimiter.checkLimit(key)`: Steps 1 to 3
\* (a new request takes the first free slot of procs)
Mw_call(p, l, key, fail) ==
    /\ mode = "stats"
    /\ procs[p].pc = "idle"
    /\ \A q \in Procs : q < p => procs[q].pc # "idle"
    /\ Cardinality({ q \in Procs : procs[q].pc # "idle" }) < 2
    /\ nreq < MaxRequests
    /\ l \in deployment
    /\ key \in Clients
    /\ fail <= 1
    /\ LET out == checkLimit(store, Limiters[l], key, clock, fail)
       IN /\ store' = out.store
          /\ procs' = [procs EXCEPT ![p] =
                 [pc |-> "checking", limiter |-> l, key |-> key, at |-> clock,
                  threw |-> out.threw, result |-> out.result]]
    /\ uniqueKeys' = uniqueKeys \cup {key}
    /\ cleared' = [cleared EXCEPT ![key] = "no"]
    /\ nreq' = nreq + 1
    /\ UNCHANGED << clock, deployment, stats, last, allowedLog, decisions, mode, redis >>

\* the handler from the await to its end: Steps 4 to 7, or the catch clause
Mw_resume(p) ==
    /\ mode = "stats"
    /\ procs[p].pc = "checking"
    /\ LET cfg == Limiters[procs[p].limiter]
           out == [threw |-> procs[p].threw, result |-> procs[p].result]
       IN /\ stats' = statsAfter(stats, cfg, out, Cardinality(uniqueKeys))
          /\ last' = [limiter |-> procs[p].limiter, key |-> procs[p].key,
                      now |-> procs[p].at, threw |-> out.threw,
                      result |-> out.result, response |-> respond(cfg, out),
                      statsBefore |-> stats, after |-> cleared[procs[p].key],
                      keyThrew |-> FALSE]
    /\ procs' = [procs EXCEPT ![p] = StatsIdle]
    /\ UNCHANGED << clock, store, deployment, uniqueKeys, allowedLog, nreq, cleared,
                    decisions, mode, redis >>

NextStats ==
    \/ Tick
    \/ StatsReset
    \/ \E p \in Procs, l \in LimiterIds, key \in Keys, fail \in 0..1 :
           Mw_call(p, l, key, fail)
    \/ \E p \in Procs : Mw_resume(p)

SpecStats == InitStatsConc /\ [][NextStats]_vars

RECURSIVE SumOver(_, _)
SumOver(f, S) ==
    IF S = {} THEN 0
    ELSE LET x == CHOOSE y \in S : TRUE IN f[x] + SumOver(f, S \ {x})

\* C31: whatever requests are in flight and however resets fall between
\* them, totalRequests = allowedRequests + blockedRequests, each algorithm's
\* total = allowed + blocked, totalRequests is the sum of the algorithms'
\* totals, and a request that got a decision added exactly 1 to totalRequests
\* and 1 to exactly one of allowedRequests and blockedRequests.
C31_StatsAccounting ==
    /\ stats.totalRequests = stats.allowedRequests + stats.blockedRequests
    /\ \A a \in Algorithms :
           stats.requestsByAlgorithm[a].total
               = stats.requestsByAlgorithm[a].allowed + stats.requestsByAlgorithm[a].blocked
    /\ stats.totalRequests
           = SumOver([a \in Algorithms |-> stats.requestsByAlgorithm[a].total], Algorithms)
    /\ Decided =>
           /\ stats.totalRequests = last.statsBefore.totalRequests + 1
           /\ stats.allowedRequests = last.statsBefore.allowedRequests
                                        + (IF last.result.allowed THEN 1 ELSE 0)
           /\ stats.blockedRequests = last.statsBefore.blockedRequests
                                        + (IF last.result.allowed THEN 0 ELSE 1)

\* C31's case: a blocked request that was suspended in its Check while the
\* statistics were reset has been counted after the reset, with another
\* request still in flight.
C31_Witness ==
    /\ mode = "stats"
    /\ Decided /\ last.after = "reset" /\ ~last.result.allowed
    /\ stats.totalRequests = 1 /\ stats.blockedRequests = 1
    /\ \E p \in Procs : procs[p].pc = "checking"

\* --------------------------------- one limiter over several of its windows

\* One limiter with a window of 1000 ms alone on its store, serving one
\* client for TimedEnd ms, at instants a quarter of a second apart.
TimedLimiters == {"swlShort", "tb", "tbSlow", "lb", "fw", "swl", "swc"}

QuarterSecond == 250

TimedInstants == { t \in 0..TimedEnd : t % QuarterSecond = 0 }

InitTimed ==
    /\ clock = 0
    /\ store = EmptyStore
    /\ \E l \in TimedLimiters : deployment = Constructed({l})
    /\ stats = InitStats
    /\ uniqueKeys = {}
    /\ last = NoLast
    /\ allowedLog = [k \in Keys |-> << >>]
    /\ nreq = 0
    /\ cleared = NotCleared
    /\ decisions = NoDecisions
    /\ mode = "timed"
    /\ procs = << >>
    /\ redis = EmptyMap

TimedTick ==
    /\ \E t \in TimedInstants : t > clock /\ clock' = t
    /\ UNCHANGED << store, deployment, stats, uniqueKeys, last, allowedLog, nreq,
                    cleared, decisions >>
    /\ UNCHANGED concVars

TimedRequest == \E l \in TimedLimiters : Request(l, ScenarioKey, 0)

NextTimed == TimedTick \/ TimedRequest

SpecTimed == InitTimed /\ [][NextTimed]_vars

\* the timestamps stored for client key k, expired or not
StoredLog(st, k) ==
    IF PlainKey(k) \in DOMAIN st.timestamps THEN st.timestamps[PlainKey(k)].value
    ELSE << >>

\* C32: a sliding-window-log Check that returns allowed = false leaves in the
\* stored log exactly the entries >= now - windowMs that were there before
\* (it adds none), and after any Check the stored log holds no timestamp
\* older than now - windowMs.
C32_BlockedRecordsNothing ==
    [][ (IsCheckStep /\ ~last'.threw
           /\ Limiters[last'.limiter].algorithm = "SLIDING_WINDOW_LOG") =>
          LET windowStart == last'.now - Limiters[last'.limiter].windowMs
              before == StoredLog(store, last'.key)
              after == StoredLog(store', last'.key)
          IN /\ ~last'.result.allowed => after = KeepFrom(before, windowStart)
             /\ \A i \in DOMAIN after : after[i] >= windowStart ]_vars

\* C32's case: a Check was blocked on a log of two entries after the entry
\* of the client's first allowed request, by then older than the window, had
\* been dropped from it.
C32_Witness ==
    /\ mode = "timed"
    /\ Decided /\ ~last.result.allowed
    /\ LastConfig.algorithm = "SLIDING_WINDOW_LOG"
    /\ Len(StoredLog(store, last.key)) = 2
    /\ LET ds == DecisionsOf(last.limiter, last.key)
       IN /\ ds[1].result.allowed
          /\ ds[1].now < last.now - LastConfig.windowMs
          /\ \A i \in DOMAIN StoredLog(store, last.key) :
                 StoredLog(store, last.key)[i] > ds[1].now

\* decision i of limiter l for key k is a refusal, and decision i + 1, the
\* key's next request, comes exactly retryAfter seconds later
RetriedOnTime(l, k, i) ==
    LET ds == DecisionsOf(l, k)
    IN /\ i + 1 \in DOMAIN ds
       /\ ~ds[i].result.allowed
       /\ Len(ds[i].result.retryAfter) > 0
       /\ ds[i + 1].now = ds[i].now + ds[i].result.retryAfter[1] * MsPerSec

\* C33: for each of the five algorithms, when a Check at time t is refused
\* with retryAfter = r and the key makes no other request in between, the
\* Check at t + r seconds is allowed.
C33_RetryAfterSufficient ==
    \A l \in deployment : \A k \in Clients :
        \A i \in DOMAIN DecisionsOf(l, k) :
            RetriedOnTime(l, k, i) => DecisionsOf(l, k)[i + 1].result.allowed

\* ------------------------------------ two limiters of one client's key
\* useCaseLimiters.login and limiters.slidingWindowLog: two sliding-window-log
\* middlewares with different windows built on the one store, both keyed by
\* the client's address.
SharedDeployment == {"swl", "swlShort"}

InitShared ==
    /\ clock = 0
    /\ store = EmptyStore
    /\ deployment = Constructed(SharedDeployment)
    /\ stats = InitStats
    /\ uniqueKeys = {}
    /\ last = NoLast
    /\ allowedLog = [k \in Keys |-> << >>]
    /\ nreq = 0
    /\ cleared = NotCleared
    /\ decisions = NoDecisions
    /\ mode = "timed"
    /\ procs = << >>
    /\ redis = EmptyMap

\* Date.now() at the requests: every half second
SharedInstants == { t \in TimedInstants : t % (2 * QuarterSecond) = 0 }

SharedTick ==
    /\ \E t \in SharedInstants : t > clock /\ clock' = t
    /\ UNCHANGED << store, deployment, stats, uniqueKeys, last, allowedLog,
                    nreq, cleared, decisions >>
    /\ UNCHANGED concVars

SharedRequest == \E l \in SharedDeployment : Request(l, ScenarioKey, 0)

NextShared == SharedTick \/ SharedRequest

SpecShared == InitShared /\ [][NextShared]_vars

\* The decisions the limiter of cfg gives key k at the instants of the first
\* n decisions of ds when no other limiter touches the store.
RECURSIVE Alone(_, _, _, _)
Alone(cfg, k, ds, n) ==
    IF n = 0
    THEN [store |-> EmptyStore, results |-> << >>]
    ELSE LET prev == Alone(cfg, k, ds, n - 1)
             out == checkLimit(prev.store, cfg, k, ds[n].now, 0)
         IN [store |-> out.store, results |-> Append(prev.results, out.result)]

\* each decision of limiter l for key k is the one l gives when the client
\* sends the same requests to l and none to another limiter
SameAsAlone(l, k) ==
    LET ds == DecisionsOf(l, k)
        alone == Alone(Limiters[l], k, ds, Len(ds)).results
    IN \A i \in DOMAIN ds :
           /\ ds[i].result.allowed = alone[i].allowed
           /\ ds[i].result.remaining = alone[i].remaining

\* limiter l allowed key k at most maxRequests requests in every window
\* (t - windowMs, t] ending at one of its decisions, with remaining >= 0
OwnLimitHolds(l, k) ==
    LET ds == DecisionsOf(l, k) IN
    \A i \in DOMAIN ds :
        /\ Cardinality(AllowedInWindowBefore(ds, i, Limiters[l].windowMs))
             + (IF ds[i].result.allowed THEN 1 ELSE 0) <= Limiters[l].maxRequests
        /\ ~QLess(ds[i].result.remaining, QInt(0))

\* C34: with two limiters of different configurations on the same store and
\* the same client key, the decisions of each limiter for a client are those
\* it gives when the client sends nothing through the other, and each
\* limiter's own limit (at most maxRequests allowed per windowMs, remaining
\* >= 0) holds under every interleaving of requests to both.
C34_LimiterIsolation ==
    \A l \in deployment : \A k \in Clients :
        SameAsAlone(l, k) /\ OwnLimitHolds(l, k)

\* ------------------------------------- concurrent Checks of a token bucket

\* Callers of one TokenBucketRateLimiter.checkLimit for one key on a
\* MemoryStore.  A caller is suspended at `await getBucketState` and at
\* `await setBucketState`; the body of either store method runs when it is
\* called.  A state object carries the number of the Check that created it
\* as `id`: getBucketState hands out the stored object itself, and what a
\* caller assigns to its fields is seen by every holder of that object.
BucketConfig == Limiters.tb

BucketKey == "ip1"

BucketIdle == [pc |-> "idle", at |-> 0, n |-> 0, state |-> Null, allowed |-> FALSE]

\* the instants of a stretch in which no refill interval elapses
BucketInstants ==
    { t \in Instants : t * TB_intervalDen(BucketConfig) < TB_intervalNum(BucketConfig) }

InitBucket ==
    /\ clock = 0
    /\ store = EmptyStore
    /\ deployment = {"tb"}
    /\ stats = InitStats
    /\ uniqueKeys = {}
    /\ last = NoLast
    /\ allowedLog = [k \in Keys |-> << >>]
    /\ nreq = 0
    /\ cleared = NotCleared
    /\ decisions = NoDecisions
    /\ mode = "bucket"
    /\ procs = [p \in Procs |-> BucketIdle]
    /\ redis = EmptyMap

BucketTick ==
    /\ \E t \in BucketInstants : t > clock /\ clock' = t
    /\ UNCHANGED << store, mode, procs, redis >>
    /\ UNCHANGED seqVars

\* checkLimit up to its first await: now is read and getBucketState runs
TBc_call(p) ==
    /\ mode = "bucket"
    /\ procs[p].pc = "idle"
    /\ \A q \in Procs : q < p => procs[q].pc # "idle"
    /\ nreq < ConcChecks
    /\ procs' = [procs EXCEPT ![p] =
                    [pc |-> "loaded", at |-> clock, n |-> nreq + 1,
                     state |-> getBucketState(store, PlainKey(BucketKey), clock),
                     allowed |-> FALSE]]
    /\ nreq' = nreq + 1
    /\ UNCHANGED << clock, store, redis, deployment, stats, uniqueKeys, last,
                    allowedLog, cleared, decisions, mode >>

\* the object `state` as the refill and the consumption leave it, keeping
\* its identity
TBc_assigned(cfg, state, now) ==
    LET state2 == TB_consume(TB_refill(cfg, state, now))
    IN [tokens |-> state2.tokens, lastRefillTime |-> state2.lastRefillTime,
        id |-> state.id]

\* from the first await to the second: a missing state becomes a new full
\* bucket, the refill and the decision are made on the object, and
\* setBucketState stores the object
TBc_decide(p) ==
    /\ mode = "bucket"
    /\ procs[p].pc = "loaded"
    /\ LET cfg == BucketConfig
           now == procs[p].at
           state0 == IF procs[p].state = Null
                     THEN [tokens |-> QInt(TB_bucketSize(cfg)), lastRefillTime |-> now,
                           id |-> procs[p].n]
                     ELSE procs[p].state[1]
           allowed == TB_allowed(TB_refill(cfg, state0, now))
           state2 == TBc_assigned(cfg, state0, now)
       IN /\ procs' = [q \in Procs |->
                          IF q = p
                          THEN [procs[p] EXCEPT !.pc = "saved", !.state = Some(state2),
                                                !.allowed = allowed]
                          ELSE IF procs[q].state # Null /\ procs[q].state[1].id = state2.id
                               THEN [procs[q] EXCEPT !.state = Some(state2)]
                               ELSE procs[q]]
          /\ store' = setBucketState(store, PlainKey(BucketKey), state2,
                                     cfg.windowMs * 2, clock)
    /\ UNCHANGED << clock, redis, deployment, stats, uniqueKeys, last, allowedLog,
                    nreq, cleared, decisions, mode >>

\* from the second await to the return: the result is built from the object
TBc_return(p) ==
    /\ mode = "bucket"
    /\ procs[p].pc = "saved"
    /\ LET cfg == BucketConfig
           now == procs[p].at
           allowed == procs[p].allowed
           result == TB_result(cfg, procs[p].state[1], allowed, now)
       IN /\ allowedLog' = IF allowed
                           THEN [allowedLog EXCEPT ![BucketKey] = Append(@, now)]
                           ELSE allowedLog
          /\ last' = [NoLast EXCEPT !.limiter = "tb", !.key = BucketKey, !.now = now,
                                    !.result = result]
          /\ decisions' = [decisions EXCEPT !["tb"][BucketKey] =
                              Append(@, [now |-> now, result |-> result])]
    /\ procs' = [procs EXCEPT ![p] = BucketIdle]
    /\ UNCHANGED << clock, store, redis, deployment, stats, uniqueKeys, nreq,
                    cleared, mode >>

NextBucket ==
    \/ BucketTick
    \/ \E p \in Procs : TBc_call(p)
    \/ \E p \in Procs : TBc_decide(p)
    \/ \E p \in Procs : TBc_return(p)

SpecBucket == InitBucket /\ [][NextBucket]_vars

\* C35: for every interleaving of concurrent token-bucket Checks on one key,
\* suspended at getBucketState and setBucketState, during which no refill
\* interval elapses, at most bucketSize Checks return allowed = true,
\* starting from a fresh bucket.
C35_ConcurrentBurst ==
    mode = "bucket" => Len(allowedLog[BucketKey]) <= TB_bucketSize(BucketConfig)

\* ----------------------------- concurrent Checks of a sliding window counter

\* Callers of one SlidingWindowCounterRateLimiter.checkLimit for one key on a
\* MemoryStore.  A caller is suspended at each `await this.store.get` and at
\* `await this.store.increment`; the body of a store method runs when it is
\* called.  After the increment's await the caller only builds its result
\* from what it holds, so the decision is recorded with the increment.
CounterConfig == Limiters.swc

CounterKey == "ip1"

CounterIdle == [pc |-> "idle", at |-> 0, keys |-> getWindowKeys(CounterConfig, CounterKey, 0),
                current |-> 0, previous |-> 0]

InitCounter ==
    /\ clock = 0
    /\ store = EmptyStore
    /\ deployment = {"swc"}
    /\ stats = InitStats
    /\ uniqueKeys = {}
    /\ last = NoLast
    /\ allowedLog = [k \in Keys |-> << >>]
    /\ nreq = 0
    /\ cleared = NotCleared
    /\ decisions = NoDecisions
    /\ mode = "counter"
    /\ procs = [p \in Procs |-> CounterIdle]
    /\ redis = EmptyMap

\* await this.store.get(k) || 0
SWC_count(st, k, now) ==
    LET c == get(st, k, now) IN IF Len(c) = 0 THEN 0 ELSE OrDefault(c[1], 0)

\* checkLimit up to its first await: now and the window keys are read and
\* get(currentKey) runs
SWC_call(p) ==
    /\ mode = "counter"
    /\ procs[p].pc = "idle"
    /\ \A q \in Procs : q < p => procs[q].pc # "idle"
    /\ nreq < ConcChecks
    /\ LET keys == getWindowKeys(CounterConfig, CounterKey, clock)
       IN procs' = [procs EXCEPT ![p] =
                       [pc |-> "current", at |-> clock, keys |-> keys,
                        current |-> SWC_count(store, keys.currentKey, clock),
                        previous |-> 0]]
    /\ nreq' = nreq + 1
    /\ UNCHANGED << clock, store, redis, deployment, stats, uniqueKeys, last,
                    allowedLog, cleared, decisions, mode >>

\* from the first await to the second: get(previousKey) runs
SWC_previous(p) ==
    /\ mode = "counter"
    /\ procs[p].pc = "current"
    /\ procs' = [procs EXCEPT ![p] =
                    [@ EXCEPT !.pc = "previous",
                              !.previous = SWC_count(store, procs[p].keys.previousKey, clock)]]
    /\ UNCHANGED << clock, store, redis, deployment, stats, uniqueKeys, last,
                    allowedLog, nreq, cleared, decisions, mode >>

\* from the second await on: getOverlapRatio reads the clock, the decision is
\* taken on the two counts read, and increment runs when it is allowed
SWC_decide(p) ==
    /\ mode = "counter"
    /\ procs[p].pc = "previous"
    /\ LET cfg == CounterConfig
           keys == procs[p].keys
           estimatedFloor ==
               SWC_estimatedFloor(cfg, procs[p].current, procs[p].previous, clock)
           allowed == SWC_allowed(cfg, estimatedFloor)
           result == SWC_result(cfg, keys.windowStart, estimatedFloor, allowed)
       IN /\ store' = IF allowed
                      THEN increment(store, keys.currentKey, cfg.windowMs, clock).store
                      ELSE store
          /\ allowedLog' = IF allowed
                           THEN [allowedLog EXCEPT ![CounterKey] = Append(@, procs[p].at)]
                           ELSE allowedLog
          /\ last' = [NoLast EXCEPT !.limiter = "swc", !.key = CounterKey,
                                    !.now = procs[p].at, !.result = result]
          /\ decisions' = [decisions EXCEPT !["swc"][CounterKey] =
                              Append(@, [now |-> procs[p].at, result |-> result])]
    /\ procs' = [procs EXCEPT ![p] = CounterIdle]
    /\ UNCHANGED << clock, redis, deployment, stats, uniqueKeys, nreq, cleared, mode >>

NextCounter ==
    \/ TickConc
    \/ \E p \in Procs : SWC_call(p)
    \/ \E p \in Procs : SWC_previous(p)
    \/ \E p \in Procs : SWC_decide(p)

SpecCounter == InitCounter /\ [][NextCounter]_vars

\* the allowed decisions of key k taken by Checks that began in the fixed
\* window starting at windowStart
AllowedInFixedWindow(k, windowStart, windowMs) ==
    { i \in 1..Len(allowedLog[k]) :
        allowedLog[k][i] >= windowStart /\ allowedLog[k][i] < windowStart + windowMs }

\* C36: for every interleaving of concurrent sliding-window-counter Checks
\* on one key, suspended between the Get calls and the Increment, the number
\* of allowed decisions within one fixed window, and the window's counter,
\* never exceed maxRequests.
C36_ConcurrentCounter ==
    mode = "counter" =>
        \A t \in Instants :
            LET cfg == CounterConfig
                keys == getWindowKeys(cfg, CounterKey, t)
            IN /\ Cardinality(AllowedInFixedWindow(CounterKey, keys.windowStart,
                                                   cfg.windowMs)) <= cfg.maxRequests
               /\ keys.currentKey \in DOMAIN store.counters =>
                      store.counters[keys.currentKey].value <= cfg.maxRequests

\* ------------------------------------------- the store and its eviction

\* Calls of the MemoryStore's operations on one key, with the sweeps of the
\* cleanup timer between them.  `store` is the store the timer sweeps;
\* procs.shadow is a store that gets the same calls and is never swept, and
\* procs.ret / procs.shadowRet are what the last call returned on each.
SweepKey == PlainKey("ip1")

SweepTtls == { MsPerSec, 2 * MsPerSec }

SweepCalls ==
    { "increment", "get", "getTTL", "addTimestamp", "getTimestamps",
      "removeOldTimestamps", "getBucketState", "setBucketState", "getQueue",
      "setQueue" }

InitSweep ==
    /\ clock = 0
    /\ store = EmptyStore
    /\ deployment = {}
    /\ stats = InitStats
    /\ uniqueKeys = {}
    /\ last = NoLast
    /\ allowedLog = [k \in Keys |-> << >>]
    /\ nreq = 0
    /\ cleared = NotCleared
    /\ decisions = NoDecisions
    /\ mode = "sweep"
    /\ procs = [shadow |-> EmptyStore, call |-> "none", ret |-> Null,
                shadowRet |-> Null]
    /\ redis = EmptyMap

\* One call of a store operation at `now`: the store afterwards and the
\* value the call resolves to (nothing for the operations returning void).
StoreCall(call, st, key, ttlMs, now) ==
    CASE call = "increment" ->
            LET r == increment(st, key, ttlMs, now)
            IN [store |-> r.store, ret |-> Some(r.ret)]
      [] call = "get" -> [store |-> st, ret |-> get(st, key, now)]
      [] call = "getTTL" -> [store |-> st, ret |-> Some(getTTL(st, key, now))]
      [] call = "addTimestamp" ->
            [store |-> addTimestamp(st, key, now, ttlMs, now), ret |-> Null]
      [] call = "getTimestamps" ->
            [store |-> st, ret |-> getTimestamps(st, key, now - ttlMs, now)]
      [] call = "removeOldTimestamps" ->
            [store |-> removeOldTimestamps(st, key, now - ttlMs, now), ret |-> Null]
      [] call = "getBucketState" -> [store |-> st, ret |-> getBucketState(st, key, now)]
      [] call = "setBucketState" ->
            [store |-> setBucketState(st, key, [tokens |-> QInt(1), lastRefillTime |-> now],
                                      ttlMs, now),
             ret |-> Null]
      [] call = "getQueue" -> [store |-> st, ret |-> getQueue(st, key, now)]
      [] call = "setQueue" ->
            [store |-> setQueue(st, key, [queue |-> << now >>, lastLeakTime |-> now],
                                ttlMs, now),
             ret |-> Null]

SweepCall(call, ttlMs) ==
    /\ mode = "sweep"
    /\ nreq < StoreOps
    /\ LET swept == StoreCall(call, store, SweepKey, ttlMs, clock)
           kept == StoreCall(call, procs.shadow, SweepKey, ttlMs, clock)
       IN /\ store' = swept.store
          /\ procs' = [shadow |-> kept.store, call |-> call, ret |-> swept.ret,
                       shadowRet |-> kept.ret]
    /\ nreq' = nreq + 1
    /\ UNCHANGED << clock, redis, deployment, stats, uniqueKeys, last, allowedLog,
                    cleared, decisions, mode >>

\* the cleanup timer fires
Sweep ==
    /\ mode = "sweep"
    /\ store' = cleanupExpired(store, clock)
    /\ store' # store
    /\ UNCHANGED << clock, mode, procs, redis >>
    /\ UNCHANGED seqVars

SweepTick ==
    /\ \E t \in Instants : t > clock /\ clock' = t
    /\ UNCHANGED << store, mode, procs, redis >>
    /\ UNCHANGED seqVars

NextSweep ==
    \/ SweepTick
    \/ Sweep
    \/ \E call \in SweepCalls, ttlMs \in SweepTtls : SweepCall(call, ttlMs)

SpecSweep == InitSweep /\ [][NextSweep]_vars

\* C37: eviction sweeps interleaved at arbitrary points of a sequence of
\* store operations change no return value of Increment, Get,
\* GetTimestamps, GetBucketState, GetQueue or GetTTL: each call returns what
\* it returns on the store that was never swept.
C37_EvictionInvisible ==
    mode = "sweep" => procs.ret = procs.shadowRet

\* The decision a token-bucket Check at `now` takes on the state `state`,
\* refilled on schedule: whether it allows, and the remaining it reports.
DecisionOn(cfg, state, now) ==
    LET refilled == TB_refill(cfg, state, now)
    IN [allowed |-> TB_allowed(refilled),
        remaining |-> QMax(QInt(0), TB_consume(refilled).tokens)]

\* bucketSize plus the tokens refilled at refillRate per refillInterval
\* between the first decision of ds and its i-th
GrantedUpTo(cfg, ds, i) ==
    QAdd(QInt(TB_bucketSize(cfg)),
         QMulInt(TB_refillRate(cfg),
                 FloorDiv((ds[i].now - ds[1].now) * TB_intervalDen(cfg),
                          TB_intervalNum(cfg))))

\* C38: a token-bucket Check on a key whose stored state has expired returns
\* the allowed and remaining it would return had the state been retained
\* and refilled on schedule, and over any history the number of allowed
\* decisions never exceeds bucketSize plus the tokens refilled over the
\* elapsed time.
C38_ExpiryGrantsNothing ==
    [][ (IsCheckStep /\ ~last'.threw
           /\ Limiters[last'.limiter].algorithm = "TOKEN_BUCKET") =>
          LET cfg == Limiters[last'.limiter]
              k == PlainKey(last'.key)
              ds == decisions'[last'.limiter][last'.key]
          IN /\ (k \in DOMAIN store.bucketStates
                   /\ isExpired(store.bucketStates[k], last'.now)) =>
                    LET kept == DecisionOn(cfg, store.bucketStates[k].value, last'.now)
                    IN /\ last'.result.allowed = kept.allowed
                       /\ last'.result.remaining = kept.remaining
             /\ \A i \in DOMAIN ds :
                    ~QLess(GrantedUpTo(cfg, ds, i),
                           QInt(Cardinality({ j \in 1..i : ds[j].result.allowed }))) ]_vars

\* ------------------------------------------ the URL shortener's limiter

\* rateLimiter.checkLimit behind rateLimitMiddleware, on the Redis server
\* `redis`: a key holds a value and, once EXPIRE has run, the instant it
\* expires at.  procs[ip] is the history of the requests of ip.
\* config.rateLimit, scaled from 60 s and 10 requests
UrlWindowSeconds == 1

UrlMaxRequests == 2

UrlIps == { "ip1", "ip2" }

\* cacheKeys.rateLimit(ip) = `ratelimit:${ip}`
rateLimitKey(ip) == << "ratelimit", ip >>

UrlLive(r, key, now) ==
    key \in DOMAIN r /\ (r[key].expiresAt = Null \/ now < r[key].expiresAt[1])

\* INCR key: a missing key counts from 0 and is created without expiry
UrlIncr(r, key, now) ==
    LET value == IF UrlLive(r, key, now) THEN r[key].value + 1 ELSE 1
        expiresAt == IF UrlLive(r, key, now) THEN r[key].expiresAt ELSE Null
    IN [redis |-> MapSet(r, key, [value |-> value, expiresAt |-> expiresAt]),
        reply |-> value]

\* EXPIRE key seconds
UrlExpire(r, key, seconds, now) ==
    IF UrlLive(r, key, now)
    THEN MapSet(r, key, [r[key] EXCEPT !.expiresAt = Some(now + seconds * MsPerSec)])
    ELSE r

UrlResult(allowed, remaining, resetAt) ==
    [allowed |-> allowed, remaining |-> remaining, resetAt |-> resetAt]

\* checkLimit(ip) at `now`; fail = 1: the INCR rejects, fail = 2: the
\* EXPIRE rejects, 0: neither.
Url_checkLimit(r, ip, now, fail) ==
    LET key == rateLimitKey(ip)
        windowStart == FloorDiv(now, MsPerSec * UrlWindowSeconds) * UrlWindowSeconds
        resetAt == (windowStart + UrlWindowSeconds) * MsPerSec
        incr == UrlIncr(r, key, now)
        currentCount == incr.reply
        result == UrlResult(currentCount <= UrlMaxRequests,
                            Max(0, UrlMaxRequests - currentCount), resetAt)
    IN IF fail = 1 THEN [threw |-> TRUE, redis |-> r, result |-> result]
       ELSE IF currentCount = 1 /\ fail = 2
            THEN [threw |-> TRUE, redis |-> incr.redis, result |-> result]
       ELSE [threw |-> FALSE,
             redis |-> IF currentCount = 1
                       THEN UrlExpire(incr.redis, key, UrlWindowSeconds, now)
                       ELSE incr.redis,
             result |-> result]

InitShortener ==
    /\ clock = 0
    /\ store = EmptyStore
    /\ deployment = {}
    /\ stats = InitStats
    /\ uniqueKeys = {}
    /\ last = NoLast
    /\ allowedLog = [k \in Keys |-> << >>]
    /\ nreq = 0
    /\ cleared = NotCleared
    /\ decisions = NoDecisions
    /\ mode = "shortener"
    /\ procs = [ip \in UrlIps |-> << >>]
    /\ redis = EmptyMap

\* rateLimitMiddleware for one request of ip: the request passes on when
\* the Check allows it or throws, and is answered 429 otherwise
rateLimitMiddleware(ip, fail) ==
    /\ mode = "shortener"
    /\ nreq < ShortenerRequests
    /\ LET key == rateLimitKey(ip)
           first == ~UrlLive(redis, key, clock)
       IN fail = 2 => first
    /\ LET out == Url_checkLimit(redis, ip, clock, fail)
       IN /\ redis' = out.redis
          /\ procs' = [procs EXCEPT ![ip] =
                          Append(@, [now |-> clock, threw |-> out.threw,
                                     result |-> out.result,
                                     status |-> IF out.threw \/ out.result.allowed
                                                THEN "next" ELSE "429",
                                     retryAfter |->
                                         CeilDiv(out.result.resetAt - clock, MsPerSec)])]
    /\ nreq' = nreq + 1
    /\ UNCHANGED << clock, store, deployment, stats, uniqueKeys, last, allowedLog,
                    cleared, decisions, mode >>

ShortenerTick ==
    /\ mode = "shortener"
    /\ \E t \in Instants : t > clock /\ clock' = t
    /\ UNCHANGED << store, mode, procs, redis >>
    /\ UNCHANGED seqVars

NextShortener ==
    \/ ShortenerTick
    \/ \E ip \in UrlIps, fail \in 0..2 : rateLimitMiddleware(ip, fail)

SpecShortener == InitShortener /\ [][NextShortener]_vars

\* request j of ip is the first one at or after the resetAt that the refused
\* request i reported
FirstAfterReset(ip, i, j) ==
    LET h == procs[ip] IN
    /\ i < j
    /\ ~h[i].threw /\ ~h[i].result.allowed
    /\ h[j].now >= h[i].result.resetAt
    /\ \A m \in (i + 1)..(j - 1) : h[m].now < h[i].result.resetAt

\* C39: after checkLimit has refused an IP with resetAt, the IP's next
\* checkLimit at a time >= resetAt is allowed, and the counter key's expiry
\* never lies later than the resetAt reported.
C39_ResetTimeHonest ==
    mode = "shortener" =>
        \A ip \in UrlIps :
            LET h == procs[ip] IN
            /\ \A i \in DOMAIN h : \A j \in DOMAIN h :
                   (FirstAfterReset(ip, i, j) /\ ~h[j].threw) => h[j].result.allowed
            /\ (Len(h) > 0 /\ ~h[Len(h)].threw /\ rateLimitKey(ip) \in DOMAIN redis) =>
                   LET e == redis[rateLimitKey(ip)].expiresAt
                   IN e # Null /\ e[1] <= h[Len(h)].result.resetAt

\* C40: every counter key created by checkLimit has an expiry ahead of it,
\* also when the EXPIRE of the first request fails after its INCR, and an
\* IP that sent no request for windowSeconds is allowed on its next request.
C40_NeverBlocksForever ==
    mode = "shortener" =>
        /\ \A key \in DOMAIN redis : redis[key].expiresAt # Null
        /\ \A ip \in UrlIps :
               LET h == procs[ip] IN
               \A i \in DOMAIN h :
                   (i > 1 /\ ~h[i].threw
                      /\ h[i].now - h[i - 1].now >= UrlWindowSeconds * MsPerSec)
                     => h[i].result.allowed

====
